---- MODULE Spec2Model ----
(***************************************************************************)
(* Position-matching and performance-analytics engine of the F&O trade     *)
(* journal: mergeTradesByOrderId, calculateBrokerageCharges,               *)
(* calculatePositions, calculateDailyPnL and calculateDrawdownAnalysis.    *)
(*                                                                         *)
(* Money and prices are JavaScript numbers in the source.  They are        *)
(* modelled as exact rationals in mixed form w + n/d (0 <= n < d, lowest   *)
(* terms), so that a division (average price, apportionment, a rate) is a  *)
(* real division and two amounts are equal exactly when their records are. *)
(***************************************************************************)
EXTENDS Integers, Sequences, FiniteSets, TLC

VARIABLES
    pc,             \* position of the pipeline run
    executions,     \* the input list of raw executions (Trade[])
    orders,         \* result of mergeTradesByOrderId
    sortedTrades,   \* calculatePositions: the orders sorted by execution time
    idx,            \* calculatePositions: number of sorted orders processed
    positions,      \* calculatePositions: the ledger (positions[])
    openPositions,  \* calculatePositions: instrument key -> open list (ledger indexes)
    daily,          \* result of calculateDailyPnL (sorted by date)
    run,            \* which run of the pipeline on the same input this is
    prevPositions,  \* ledger returned by the previous run
    prevDaily,      \* DayRecord series returned by the previous run
    chargeIn,       \* calculateBrokerageCharges: its argument (trade, exchange)
    chargeOut,      \* calculateBrokerageCharges: its result
    dd,             \* calculateDrawdownAnalysis: the locals of its scan
    stats           \* results of calculateTradeStatistics, calculateStreakAnalysis
                    \* and calculatePerformanceRatios

vars == <<pc, executions, orders, sortedTrades, idx, positions, openPositions,
          daily, run, prevPositions, prevDaily, chargeIn, chargeOut, dd, stats>>

pipelineVars == <<executions, orders, sortedTrades, idx, positions, openPositions,
                  daily, run, prevPositions, prevDaily, stats>>

-----------------------------------------------------------------------------
(* Exact arithmetic on JavaScript numbers.                                  *)

RECURSIVE GCD(_, _)
GCD(a, b) == IF b = 0 THEN a ELSE GCD(b, a % b)

LCM(a, b) == (a \div GCD(a, b)) * b

\* p / q for integers p and q > 0
NFrac(p, q) ==
    LET w == p \div q
        r == p % q
        g == GCD(q, r)
    IN  [w |-> w, n |-> r \div g, d |-> q \div g]

NInt(k) == [w |-> k, n |-> 0, d |-> 1]

Zero == NInt(0)

NAdd(a, b) ==
    LET l == LCM(a.d, b.d)
        s == a.n * (l \div a.d) + b.n * (l \div b.d)
        f == NFrac(s, l)
    IN  [w |-> a.w + b.w + f.w, n |-> f.n, d |-> f.d]

NNeg(a) ==
    IF a.n = 0 THEN [w |-> 0 - a.w, n |-> 0, d |-> 1]
    ELSE [w |-> 0 - a.w - 1, n |-> a.d - a.n, d |-> a.d]

NSub(a, b) == NAdd(a, NNeg(b))

\* a * p / q for integers p and q > 0
NScale(a, p, q) ==
    LET g == GCD(a.d, IF p < 0 THEN 0 - p ELSE p)
    IN  NAdd(NFrac(a.w * p, q), NFrac(a.n * (p \div g), (a.d \div g) * q))

NLess(a, b) ==
    \/ a.w < b.w
    \/ /\ a.w = b.w
       /\ LET l == LCM(a.d, b.d)
          IN  a.n * (l \div a.d) < b.n * (l \div b.d)

NMin(a, b) == IF NLess(b, a) THEN b ELSE a

NPos(a) == NLess(Zero, a)

\* the numerator of a over its denominator a.d
NNumerator(a) == a.w * a.d + a.n

NMul(a, b) == NFrac(NNumerator(a) * NNumerator(b), a.d * b.d)

\* a / b for b # 0
NDiv(a, b) ==
    IF NNumerator(b) > 0
    THEN NFrac(NNumerator(a) * b.d, a.d * NNumerator(b))
    ELSE NFrac((0 - NNumerator(a)) * b.d, a.d * (0 - NNumerator(b)))

NAbs(a) == IF NLess(a, Zero) THEN NNeg(a) ELSE a

\* the number Infinity
Infinity == [infinite |-> TRUE]

\* value * p / q for an integer value (common factors taken out first)
Rate(value, p, q) ==
    LET g == GCD(q, value)
    IN  IF g = 0 THEN Zero ELSE NFrac((value \div g) * p, q \div g)

-----------------------------------------------------------------------------
(* Cost model: calculateBrokerageCharges.                                   *)

BrokerageCap == 20

GstPercent == 18

Crore == 10000000

\* brokerageOf without the cap of 20 on a futures order
brokerageUncapped(trade) ==
    IF trade.instrumentType = "FUT" THEN Rate(trade.value, 3, 10000)
    ELSE IF trade.instrumentType \in {"CE", "PE"} THEN NInt(BrokerageCap)
    ELSE Zero

\* 1. Brokerage
brokerageOf(trade) ==
    IF trade.instrumentType = "FUT"
    THEN NMin(Rate(trade.value, 3, 10000), NInt(BrokerageCap))
    ELSE IF trade.instrumentType \in {"CE", "PE"} THEN NInt(BrokerageCap)
    ELSE Zero

\* sttOf that charges both sides
sttBothSides(trade) ==
    IF trade.instrumentType = "FUT" THEN Rate(trade.value, 2, 10000)
    ELSE IF trade.instrumentType \in {"CE", "PE"} THEN Rate(trade.value, 1, 1000)
    ELSE Zero

\* 2. STT/CTT
sttOf(trade) ==
    IF trade.instrumentType = "FUT"
    THEN (IF trade.tradeType = "sell" THEN Rate(trade.value, 2, 10000) ELSE Zero)
    ELSE IF trade.instrumentType \in {"CE", "PE"}
    THEN (IF trade.tradeType = "sell" THEN Rate(trade.value, 1, 1000) ELSE Zero)
    ELSE Zero

\* 3. Transaction charges
transactionChargesOf(trade, exchange) ==
    IF trade.instrumentType = "FUT"
    THEN (IF exchange = "NSE" THEN Rate(trade.value, 173, Crore) ELSE Zero)
    ELSE IF trade.instrumentType \in {"CE", "PE"}
    THEN (IF exchange = "NSE" THEN Rate(trade.value, 3503, Crore)
                              ELSE Rate(trade.value, 325, 1000000))
    ELSE Zero

\* 4. SEBI charges: 10 per crore
sebiChargesOf(trade) == Rate(trade.value, 10, Crore)

\* 5. Stamp charges (buy side only)
stampChargesOf(trade) ==
    IF trade.tradeType # "buy" THEN Zero
    ELSE IF trade.instrumentType = "FUT"
    THEN NMin(Rate(trade.value, 2, 100000), Rate(trade.value, 200, Crore))
    ELSE IF trade.instrumentType \in {"CE", "PE"}
    THEN NMin(Rate(trade.value, 3, 100000), Rate(trade.value, 300, Crore))
    ELSE Zero

calculateBrokerageCharges(trade, exchange) ==
    LET brokerage == brokerageOf(trade)
        stt == sttOf(trade)
        transactionCharges == transactionChargesOf(trade, exchange)
        sebiCharges == sebiChargesOf(trade)
        stampCharges == stampChargesOf(trade)
        \* 6. GST on (brokerage + SEBI charges + transaction charges)
        gst == NScale(NAdd(NAdd(brokerage, sebiCharges), transactionCharges),
                      GstPercent, 100)
    IN  [brokerage |-> brokerage,
         stt |-> stt,
         transactionCharges |-> transactionCharges,
         sebiCharges |-> sebiCharges,
         stampCharges |-> stampCharges,
         gst |-> gst,
         totalCharges |->
            NAdd(NAdd(NAdd(NAdd(NAdd(brokerage, stt), transactionCharges),
                           sebiCharges), stampCharges), gst)]

-----------------------------------------------------------------------------
(* Order aggregator: mergeTradesByOrderId.                                  *)
(* A Trade is a record; a merged order keeps its member executions as the   *)
(* list of their ids (the source keeps references to the execution objects).*)

RECURSIVE IndexOfOrder(_, _, _)
\* position of the order with this orderId in a list of orders, 0 if absent
IndexOfOrder(list, orderId, i) ==
    IF i > Len(list) THEN 0
    ELSE IF list[i].orderId = orderId THEN i
    ELSE IndexOfOrder(list, orderId, i + 1)

\* mergeOne that aggregates the quantity of a later execution but not its value
mergeOneValueLost(orderMap, trade) ==
    LET k == IndexOfOrder(orderMap, trade.orderId, 1)
    IN  IF k = 0
        THEN Append(orderMap, [trade EXCEPT !.trades = <<trade.id>>])
        ELSE [orderMap EXCEPT
                ![k].trades = Append(@, trade.id),
                ![k].quantity = @ + trade.quantity]

\* one iteration of trades.forEach over the insertion-ordered orderMap
mergeOne(orderMap, trade) ==
    LET k == IndexOfOrder(orderMap, trade.orderId, 1)
    IN  IF k = 0
        THEN Append(orderMap, [trade EXCEPT !.trades = <<trade.id>>])
        ELSE [orderMap EXCEPT
                ![k].trades = Append(@, trade.id),
                ![k].quantity = @ + trade.quantity,
                ![k].value = @ + trade.value]

RECURSIVE mergeAll(_, _, _)
mergeAll(orderMap, trades, i) ==
    IF i > Len(trades) THEN orderMap
    ELSE mergeAll(mergeOne(orderMap, trades[i]), trades, i + 1)

\* average price of a merged order
averagePrice(trade) ==
    IF trade.quantity > 0 THEN NFrac(trade.value, trade.quantity) ELSE trade.price

mergeTradesByOrderId(trades) ==
    LET orderMap == mergeAll(<<>>, trades, 1)
    IN  [k \in 1..Len(orderMap) |->
            [orderMap[k] EXCEPT !.price = averagePrice(orderMap[k])]]

\* inputAfterMerge when the map holds the first execution itself, not a copy
inputAfterMergeAliased(trades, merged) ==
    [k \in 1..Len(trades) |->
        IF \E j \in 1..(k - 1) : trades[j].orderId = trades[k].orderId
        THEN trades[k]
        ELSE LET order == merged[IndexOfOrder(merged, trades[k].orderId, 1)]
             IN  [trades[k] EXCEPT !.quantity = order.quantity,
                                   !.value = order.value,
                                   !.price = order.price]]

\* the input list as mergeTradesByOrderId leaves it: the map holds a copy
\* {...trade, trades: [trade]} of the first execution of an order, and every
\* write (quantity, value, price, trades.push) goes to that copy
inputAfterMerge(trades, merged) == trades

-----------------------------------------------------------------------------
(* Position matching engine: calculatePositions.                            *)

instrumentKey(trade) ==
    <<trade.symbol, trade.instrumentType, trade.strikePrice, trade.expiryDate>>

RECURSIVE insertByTime(_, _, _)
\* stable insertion: after every element that does not execute later
insertByTime(sorted, trade, i) ==
    IF i > Len(sorted) THEN Append(sorted, trade)
    ELSE IF sorted[i].orderExecutionTime > trade.orderExecutionTime
    THEN SubSeq(sorted, 1, i - 1) \o <<trade>> \o SubSeq(sorted, i, Len(sorted))
    ELSE insertByTime(sorted, trade, i + 1)

RECURSIVE sortByExecutionTime(_, _, _)
sortByExecutionTime(sorted, trades, i) ==
    IF i > Len(trades) THEN sorted
    ELSE sortByExecutionTime(insertByTime(sorted, trades[i], 1), trades, i + 1)

Min(a, b) == IF a < b THEN a ELSE b

RECURSIVE shortPositionsOf(_, _, _)
\* instrumentPositions.filter(p => p.netQuantity < 0 && p.remainingQuantity > 0),
\* as ledger indexes, in the order of the list
shortPositionsOf(list, ledger, i) ==
    IF i > Len(list) THEN <<>>
    ELSE (IF ledger[list[i]].netQuantity < 0 /\ ledger[list[i]].remainingQuantity > 0
          THEN <<list[i]>> ELSE <<>>)
         \o shortPositionsOf(list, ledger, i + 1)

\* longPositionsOf that filters on the wrong sign
longPositionsWrongSign(list, ledger, i) == shortPositionsOf(list, ledger, i)

RECURSIVE longPositionsOf(_, _, _)
\* instrumentPositions.filter(p => p.netQuantity > 0 && p.remainingQuantity > 0)
longPositionsOf(list, ledger, i) ==
    IF i > Len(list) THEN <<>>
    ELSE (IF ledger[list[i]].netQuantity > 0 /\ ledger[list[i]].remainingQuantity > 0
          THEN <<list[i]>> ELSE <<>>)
         \o longPositionsOf(list, ledger, i + 1)

RECURSIVE stillOpen(_, _, _)
\* instrumentPositions.filter(p => p.remainingQuantity > 0)
stillOpen(list, ledger, i) ==
    IF i > Len(list) THEN <<>>
    ELSE (IF ledger[list[i]].remainingQuantity > 0 THEN <<list[i]>> ELSE <<>>)
         \o stillOpen(list, ledger, i + 1)

\* closeShort that leaves a fully closed short position open
closeShortStaysOpen(position, trade, quantityToClose) ==
    LET remaining == position.remainingQuantity - quantityToClose
        totalBuyValue ==
            NAdd(position.totalBuyValue,
                 NFrac(quantityToClose * trade.value, trade.quantity))
        realizedPnL ==
            NAdd(position.realizedPnL,
                 NScale(NSub(position.entryPrice, trade.price), quantityToClose, 1))
        updated == [position EXCEPT
                      !.trades = Append(@, trade.orderId),
                      !.totalBuyValue = totalBuyValue,
                      !.remainingQuantity = remaining,
                      !.realizedPnL = realizedPnL]
    IN  IF remaining = 0
        THEN [updated EXCEPT
                !.status = "open",
                !.closeTime = <<trade.orderExecutionTime>>,
                !.exitPrice = <<trade.price>>,
                !.netQuantity = 0,
                !.avgBuyPrice = NScale(totalBuyValue, 1, position.maxQuantity)]
        ELSE [updated EXCEPT !.netQuantity = 0 - remaining]

\* closeShort that computes the realized P&L as for a long position
closeShortLongPnL(position, trade, quantityToClose) ==
    LET remaining == position.remainingQuantity - quantityToClose
        totalBuyValue ==
            NAdd(position.totalBuyValue,
                 NFrac(quantityToClose * trade.value, trade.quantity))
        realizedPnL ==
            NAdd(position.realizedPnL,
                 NScale(NSub(trade.price, position.entryPrice), quantityToClose, 1))
        updated == [position EXCEPT
                      !.trades = Append(@, trade.orderId),
                      !.totalBuyValue = totalBuyValue,
                      !.remainingQuantity = remaining,
                      !.realizedPnL = realizedPnL]
    IN  IF remaining = 0
        THEN [updated EXCEPT
                !.status = "closed",
                !.closeTime = <<trade.orderExecutionTime>>,
                !.exitPrice = <<trade.price>>,
                !.netQuantity = 0,
                !.avgBuyPrice = NScale(totalBuyValue, 1, position.maxQuantity)]
        ELSE [updated EXCEPT !.netQuantity = 0 - remaining]

\* a buy order closes quantityToClose of a short position
closeShort(position, trade, quantityToClose) ==
    LET remaining == position.remainingQuantity - quantityToClose
        totalBuyValue ==
            NAdd(position.totalBuyValue,
                 NFrac(quantityToClose * trade.value, trade.quantity))
        realizedPnL ==
            NAdd(position.realizedPnL,
                 NScale(NSub(position.entryPrice, trade.price), quantityToClose, 1))
        updated == [position EXCEPT
                      !.trades = Append(@, trade.orderId),
                      !.totalBuyValue = totalBuyValue,
                      !.remainingQuantity = remaining,
                      !.realizedPnL = realizedPnL]
    IN  IF remaining = 0
        THEN [updated EXCEPT
                !.status = "closed",
                !.closeTime = <<trade.orderExecutionTime>>,
                !.exitPrice = <<trade.price>>,
                !.netQuantity = 0,
                !.avgBuyPrice = NScale(totalBuyValue, 1, position.maxQuantity)]
        ELSE [updated EXCEPT !.netQuantity = 0 - remaining]

\* closeLong that leaves netQuantity as it was on a partial close
closeLongStaleNet(position, trade, quantityToClose) ==
    LET remaining == position.remainingQuantity - quantityToClose
        totalSellValue ==
            NAdd(position.totalSellValue,
                 NFrac(quantityToClose * trade.value, trade.quantity))
        realizedPnL ==
            NAdd(position.realizedPnL,
                 NScale(NSub(trade.price, position.entryPrice), quantityToClose, 1))
        updated == [position EXCEPT
                      !.trades = Append(@, trade.orderId),
                      !.totalSellValue = totalSellValue,
                      !.remainingQuantity = remaining,
                      !.realizedPnL = realizedPnL]
    IN  IF remaining = 0
        THEN [updated EXCEPT
                !.status = "closed",
                !.closeTime = <<trade.orderExecutionTime>>,
                !.exitPrice = <<trade.price>>,
                !.netQuantity = 0,
                !.avgSellPrice = NScale(totalSellValue, 1, position.maxQuantity)]
        ELSE updated

\* a sell order closes quantityToClose of a long position
closeLong(position, trade, quantityToClose) ==
    LET remaining == position.remainingQuantity - quantityToClose
        totalSellValue ==
            NAdd(position.totalSellValue,
                 NFrac(quantityToClose * trade.value, trade.quantity))
        realizedPnL ==
            NAdd(position.realizedPnL,
                 NScale(NSub(trade.price, position.entryPrice), quantityToClose, 1))
        updated == [position EXCEPT
                      !.trades = Append(@, trade.orderId),
                      !.totalSellValue = totalSellValue,
                      !.remainingQuantity = remaining,
                      !.realizedPnL = realizedPnL]
    IN  IF remaining = 0
        THEN [updated EXCEPT
                !.status = "closed",
                !.closeTime = <<trade.orderExecutionTime>>,
                !.exitPrice = <<trade.price>>,
                !.netQuantity = 0,
                !.avgSellPrice = NScale(totalSellValue, 1, position.maxQuantity)]
        ELSE [updated EXCEPT !.netQuantity = remaining]

RECURSIVE closeShorts(_, _, _, _)
\* for (const position of shortPositions): the ledger and the order's unmatched
\* quantity after the loop
closeShorts(state, candidates, trade, i) ==
    IF i > Len(candidates) THEN state
    ELSE LET position == state.ledger[candidates[i]]
         IN  IF position.remainingQuantity > 0 /\ state.remainingQuantity > 0
             THEN LET quantityToClose ==
                          Min(position.remainingQuantity, state.remainingQuantity)
                  IN  closeShorts(
                        [ledger |-> [state.ledger EXCEPT ![candidates[i]] =
                                        closeShort(position, trade, quantityToClose)],
                         remainingQuantity |->
                            state.remainingQuantity - quantityToClose],
                        candidates, trade, i + 1)
             ELSE closeShorts(state, candidates, trade, i + 1)

RECURSIVE closeLongsNewestFirst(_, _, _, _)
\* closeLongs that takes the candidates newest first
closeLongsNewestFirst(state, candidates, trade, i) ==
    IF i > Len(candidates) THEN state
    ELSE LET position == state.ledger[candidates[Len(candidates) + 1 - i]]
         IN  IF position.remainingQuantity > 0 /\ state.remainingQuantity > 0
             THEN LET quantityToClose ==
                          Min(position.remainingQuantity, state.remainingQuantity)
                  IN  closeLongsNewestFirst(
                        [ledger |-> [state.ledger EXCEPT ![candidates[Len(candidates) + 1 - i]] =
                                        closeLong(position, trade, quantityToClose)],
                         remainingQuantity |->
                            state.remainingQuantity - quantityToClose],
                        candidates, trade, i + 1)
             ELSE closeLongsNewestFirst(state, candidates, trade, i + 1)

RECURSIVE closeLongsWrongSlot(_, _, _, _)
\* closeLongs that stores the updated position at the loop index, not at the
\* candidate's place in the ledger
closeLongsWrongSlot(state, candidates, trade, i) ==
    IF i > Len(candidates) THEN state
    ELSE LET position == state.ledger[candidates[i]]
         IN  IF position.remainingQuantity > 0 /\ state.remainingQuantity > 0
             THEN LET quantityToClose ==
                          Min(position.remainingQuantity, state.remainingQuantity)
                  IN  closeLongsWrongSlot(
                        [ledger |-> [state.ledger EXCEPT ![i] =
                                        closeLong(position, trade, quantityToClose)],
                         remainingQuantity |->
                            state.remainingQuantity - quantityToClose],
                        candidates, trade, i + 1)
             ELSE closeLongsWrongSlot(state, candidates, trade, i + 1)

RECURSIVE closeLongs(_, _, _, _)
\* for (const position of longPositions)
closeLongs(state, candidates, trade, i) ==
    IF i > Len(candidates) THEN state
    ELSE LET position == state.ledger[candidates[i]]
         IN  IF position.remainingQuantity > 0 /\ state.remainingQuantity > 0
             THEN LET quantityToClose ==
                          Min(position.remainingQuantity, state.remainingQuantity)
                  IN  closeLongs(
                        [ledger |-> [state.ledger EXCEPT ![candidates[i]] =
                                        closeLong(position, trade, quantityToClose)],
                         remainingQuantity |->
                            state.remainingQuantity - quantityToClose],
                        candidates, trade, i + 1)
             ELSE closeLongs(state, candidates, trade, i + 1)

\* an optional field that is not set (closeTime, exitPrice); <<v>> once set
Undefined == <<>>

\* the position a buy order opens with its unmatched quantity
newLongPosition(trade, remainingQuantity, suffix) ==
    [positionId |-> <<instrumentKey(trade), trade.orderExecutionTime, suffix>>,
     symbol |-> trade.symbol,
     instrumentType |-> trade.instrumentType,
     strikePrice |-> trade.strikePrice,
     expiryDate |-> trade.expiryDate,
     netQuantity |-> remainingQuantity,
     avgBuyPrice |-> trade.price,
     avgSellPrice |-> Zero,
     totalBuyValue |-> NFrac(remainingQuantity * trade.value, trade.quantity),
     totalSellValue |-> Zero,
     realizedPnL |-> Zero,
     unrealizedPnL |-> Zero,
     status |-> "open",
     trades |-> <<trade.orderId>>,
     openTime |-> trade.orderExecutionTime,
     closeTime |-> Undefined,
     entryPrice |-> trade.price,
     exitPrice |-> Undefined,
     maxQuantity |-> remainingQuantity,
     remainingQuantity |-> remainingQuantity]

\* newShortPosition that opens the order's whole quantity
newShortPositionWholeOrder(trade, remainingQuantity, suffix) ==
    [positionId |-> <<instrumentKey(trade), trade.orderExecutionTime, suffix>>,
     symbol |-> trade.symbol,
     instrumentType |-> trade.instrumentType,
     strikePrice |-> trade.strikePrice,
     expiryDate |-> trade.expiryDate,
     netQuantity |-> 0 - trade.quantity,
     avgBuyPrice |-> Zero,
     avgSellPrice |-> trade.price,
     totalBuyValue |-> Zero,
     totalSellValue |-> NInt(trade.value),
     realizedPnL |-> Zero,
     unrealizedPnL |-> Zero,
     status |-> "open",
     trades |-> <<trade.orderId>>,
     openTime |-> trade.orderExecutionTime,
     closeTime |-> Undefined,
     entryPrice |-> trade.price,
     exitPrice |-> Undefined,
     maxQuantity |-> trade.quantity,
     remainingQuantity |-> trade.quantity]

\* the position a sell order opens with its unmatched quantity
newShortPosition(trade, remainingQuantity, suffix) ==
    [positionId |-> <<instrumentKey(trade), trade.orderExecutionTime, suffix>>,
     symbol |-> trade.symbol,
     instrumentType |-> trade.instrumentType,
     strikePrice |-> trade.strikePrice,
     expiryDate |-> trade.expiryDate,
     netQuantity |-> 0 - remainingQuantity,
     avgBuyPrice |-> Zero,
     avgSellPrice |-> trade.price,
     totalBuyValue |-> Zero,
     totalSellValue |-> NFrac(remainingQuantity * trade.value, trade.quantity),
     realizedPnL |-> Zero,
     unrealizedPnL |-> Zero,
     status |-> "open",
     trades |-> <<trade.orderId>>,
     openTime |-> trade.orderExecutionTime,
     closeTime |-> Undefined,
     entryPrice |-> trade.price,
     exitPrice |-> Undefined,
     maxQuantity |-> remainingQuantity,
     remainingQuantity |-> remainingQuantity]

\* instrumentPositionsOf that keeps one open list for all instrument keys
instrumentPositionsShared(open, key) ==
    IF DOMAIN open # {} THEN open[CHOOSE k \in DOMAIN open : TRUE] ELSE <<>>

\* openPositions.get(instrumentKey), created empty when absent
instrumentPositionsOf(open, key) ==
    IF key \in DOMAIN open THEN open[key] ELSE <<>>

-----------------------------------------------------------------------------
(* Temporal aggregator: calculateDailyPnL.                                  *)
(* A date key ('yyyy-MM-dd' of startOfDay(tradeDate)) is modelled by the    *)
(* day number; the order of the keys as strings is the order of the days.   *)

dateKeyOf(trade) == trade.tradeDate

newDaily(date) ==
    [date |-> date, realizedPnL |-> Zero, brokerage |-> Zero, netPnL |-> Zero,
     totalTrades |-> 0, winningTrades |-> 0, losingTrades |-> 0,
     grossTurnover |-> 0, totalOrders |-> 0, winningOrders |-> 0,
     losingOrders |-> 0, orderWinRate |-> Zero, tradeWinRate |-> Zero]

\* Initialize daily data: one record per date key met
initDailyMap(trades) ==
    [date \in {dateKeyOf(trades[i]) : i \in 1..Len(trades)} |-> newDaily(date)]

RECURSIVE turnoverPass(_, _, _)
\* brokerage and order counts for each merged trade (order)
turnoverPass(dailyMap, trades, i) ==
    IF i > Len(trades) THEN dailyMap
    ELSE LET trade == trades[i]
             charges == calculateBrokerageCharges(trade, trade.exchange)
         IN  turnoverPass(
               [dailyMap EXCEPT ![dateKeyOf(trade)] =
                  [@ EXCEPT !.brokerage = NAdd(@, charges.totalCharges),
                            !.totalOrders = @ + 1,
                            !.grossTurnover = @ + trade.value,
                            !.totalTrades = @ + Len(trade.trades)]],
               trades, i + 1)

RECURSIVE sortedSeqDescending(_)
\* sortedSeqOf with the comparison turned round
sortedSeqDescending(set) ==
    IF set = {} THEN <<>>
    ELSE LET greatest == CHOOSE x \in set : \A y \in set : y <= x
         IN  <<greatest>> \o sortedSeqDescending(set \ {greatest})

RECURSIVE sortedSeqOf(_)
\* [...new Set(dates)].sort()
sortedSeqOf(set) ==
    IF set = {} THEN <<>>
    ELSE LET least == CHOOSE x \in set : \A y \in set : x <= y
         IN  <<least>> \o sortedSeqOf(set \ {least})

\* the order object a position's trades entry refers to
orderById(trades, orderId) == trades[IndexOfOrder(trades, orderId, 1)]

tradingDatesOf(position, trades) ==
    sortedSeqOf({dateKeyOf(orderById(trades, position.trades[j])) :
                    j \in 1..Len(position.trades)})

\* Count winning/losing positions
countPosition(day, position) ==
    IF NPos(position.realizedPnL)
    THEN [day EXCEPT !.winningOrders = @ + 1,
                     !.winningTrades = @ + Len(position.trades)]
    ELSE [day EXCEPT !.losingOrders = @ + 1,
                     !.losingTrades = @ + Len(position.trades)]

RECURSIVE distributePnLFirstDay(_, _, _, _, _)
\* distributePnL that counts the position on the first spanned day
distributePnLFirstDay(dailyMap, position, tradingDates, pnlPerDay, index) ==
    IF index > Len(tradingDates) THEN dailyMap
    ELSE LET added == [dailyMap[tradingDates[index]] EXCEPT
                          !.realizedPnL = NAdd(@, pnlPerDay)]
             day == IF index = 1 THEN countPosition(added, position) ELSE added
         IN  distributePnLFirstDay([dailyMap EXCEPT ![tradingDates[index]] = day],
                                   position, tradingDates, pnlPerDay, index + 1)

RECURSIVE distributePnLUndivided(_, _, _, _, _)
\* distributePnL that adds the whole realized P&L on every spanned day
distributePnLUndivided(dailyMap, position, tradingDates, pnlPerDay, index) ==
    IF index > Len(tradingDates) THEN dailyMap
    ELSE LET added == [dailyMap[tradingDates[index]] EXCEPT
                          !.realizedPnL = NAdd(@, position.realizedPnL)]
             day == IF index = Len(tradingDates) THEN countPosition(added, position)
                    ELSE added
         IN  distributePnLUndivided([dailyMap EXCEPT ![tradingDates[index]] = day],
                                    position, tradingDates, pnlPerDay, index + 1)

RECURSIVE distributePnLEveryDay(_, _, _, _, _)
\* distributePnL that counts the position on every spanned day
distributePnLEveryDay(dailyMap, position, tradingDates, pnlPerDay, index) ==
    IF index > Len(tradingDates) THEN dailyMap
    ELSE LET added == [dailyMap[tradingDates[index]] EXCEPT
                          !.realizedPnL = NAdd(@, pnlPerDay)]
             day == countPosition(added, position)
         IN  distributePnLEveryDay([dailyMap EXCEPT ![tradingDates[index]] = day],
                                   position, tradingDates, pnlPerDay, index + 1)

RECURSIVE distributePnL(_, _, _, _, _)
\* tradingDates.forEach((dateKey, index) => ...) of a multi-day position
distributePnL(dailyMap, position, tradingDates, pnlPerDay, index) ==
    IF index > Len(tradingDates) THEN dailyMap
    ELSE LET added == [dailyMap[tradingDates[index]] EXCEPT
                          !.realizedPnL = NAdd(@, pnlPerDay)]
             day == IF index = Len(tradingDates) THEN countPosition(added, position)
                    ELSE added
         IN  distributePnL([dailyMap EXCEPT ![tradingDates[index]] = day],
                           position, tradingDates, pnlPerDay, index + 1)

\* one iteration of positions.forEach
positionPnL(dailyMap, position, trades) ==
    IF position.status = "closed" /\ position.realizedPnL # Zero
    THEN LET tradingDates == tradingDatesOf(position, trades)
         IN  IF Len(tradingDates) = 1
             THEN [dailyMap EXCEPT ![tradingDates[1]] =
                     countPosition(
                        [@ EXCEPT !.realizedPnL = NAdd(@, position.realizedPnL)],
                        position)]
             ELSE distributePnL(dailyMap, position, tradingDates,
                                NScale(position.realizedPnL, 1, Len(tradingDates)), 1)
    ELSE dailyMap

RECURSIVE pnlPass(_, _, _, _)
pnlPass(dailyMap, ledger, trades, i) ==
    IF i > Len(ledger) THEN dailyMap
    ELSE pnlPass(positionPnL(dailyMap, ledger[i], trades), ledger, trades, i + 1)

\* finishDaily that leaves the charges out of the net P&L
finishDailyGross(day) ==
    LET totalCompletedOrders == day.winningOrders + day.losingOrders
        totalCompletedTrades == day.winningTrades + day.losingTrades
    IN  [day EXCEPT
           !.netPnL = day.realizedPnL,
           !.orderWinRate = IF totalCompletedOrders > 0
                            THEN NFrac(day.winningOrders * 100, totalCompletedOrders)
                            ELSE Zero,
           !.tradeWinRate = IF totalCompletedTrades > 0
                            THEN NFrac(day.winningTrades * 100, totalCompletedTrades)
                            ELSE Zero]

\* Calculate win rates and net P&L
finishDaily(day) ==
    LET totalCompletedOrders == day.winningOrders + day.losingOrders
        totalCompletedTrades == day.winningTrades + day.losingTrades
    IN  [day EXCEPT
           !.netPnL = NSub(day.realizedPnL, day.brokerage),
           !.orderWinRate = IF totalCompletedOrders > 0
                            THEN NFrac(day.winningOrders * 100, totalCompletedOrders)
                            ELSE Zero,
           !.tradeWinRate = IF totalCompletedTrades > 0
                            THEN NFrac(day.winningTrades * 100, totalCompletedTrades)
                            ELSE Zero]

\* calculateDailyPnL(trades); ledger is what its call calculatePositions(trades)
\* returns
calculateDailyPnL(trades, ledger) ==
    LET dailyMap == pnlPass(turnoverPass(initDailyMap(trades), trades, 1),
                            ledger, trades, 1)
        dates == sortedSeqOf(DOMAIN dailyMap)
    IN  [k \in 1..Len(dates) |-> finishDaily(dailyMap[dates[k]])]

-----------------------------------------------------------------------------
(* calculateTradeStatistics.                                                *)

isClosed(p) == p.status = "closed"

isWinning(p) == NPos(p.realizedPnL)

isLosing(p) == NLess(p.realizedPnL, Zero)

RECURSIVE sumRealizedPnL(_, _)
\* list.reduce((sum, p) => sum + p.realizedPnL, 0), from element i on
sumRealizedPnL(list, i) ==
    IF i > Len(list) THEN Zero
    ELSE NAdd(list[i].realizedPnL, sumRealizedPnL(list, i + 1))

RECURSIVE maxRealizedPnL(_, _)
\* Math.max(...list.map(p => p.realizedPnL)) of a non-empty list
maxRealizedPnL(list, i) ==
    IF i = Len(list) THEN list[i].realizedPnL
    ELSE LET m == maxRealizedPnL(list, i + 1)
         IN  IF NLess(m, list[i].realizedPnL) THEN list[i].realizedPnL ELSE m

RECURSIVE minRealizedPnL(_, _)
\* Math.min(...list.map(p => p.realizedPnL)) of a non-empty list
minRealizedPnL(list, i) ==
    IF i = Len(list) THEN list[i].realizedPnL
    ELSE NMin(list[i].realizedPnL, minRealizedPnL(list, i + 1))

RECURSIVE sumValue(_, _)
\* trades.reduce((sum, mt) => sum + mt.value, 0)
sumValue(trades, i) ==
    IF i > Len(trades) THEN 0 ELSE trades[i].value + sumValue(trades, i + 1)

RECURSIVE sumTotalCharges(_, _)
\* trades.reduce((sum, mt) => sum + charges(mt).totalCharges, 0)
sumTotalCharges(trades, i) ==
    IF i > Len(trades) THEN Zero
    ELSE NAdd(calculateBrokerageCharges(trades[i], trades[i].exchange).totalCharges,
              sumTotalCharges(trades, i + 1))

winRateOf(closedPositions, winningPositions, losingPositions) ==
    IF Len(closedPositions) > 0
    THEN NFrac(Len(winningPositions) * 100, Len(closedPositions))
    ELSE Zero

\* profitFactorOf that yields Infinity whenever nothing was lost
profitFactorInfiniteWithoutLoss(totalWins, totalLosses) ==
    IF NPos(totalLosses) THEN NDiv(totalWins, totalLosses) ELSE Infinity

profitFactorOf(totalWins, totalLosses) ==
    IF NPos(totalLosses) THEN NDiv(totalWins, totalLosses)
    ELSE IF NPos(totalWins) THEN Infinity
    ELSE Zero

\* calculateTradeStatistics(trades); ledger is what its call
\* calculatePositions(trades) returns
calculateTradeStatistics(trades, ledger) ==
    LET closedPositions == SelectSeq(ledger, isClosed)
        winningPositions == SelectSeq(closedPositions, isWinning)
        losingPositions == SelectSeq(closedPositions, isLosing)
        totalPnL == sumRealizedPnL(closedPositions, 1)
        totalBrokerage == sumTotalCharges(trades, 1)
        totalWins == sumRealizedPnL(winningPositions, 1)
        totalLosses == NAbs(sumRealizedPnL(losingPositions, 1))
    IN  [totalTrades |-> Len(trades),
         winningTrades |-> Len(winningPositions),
         losingTrades |-> Len(losingPositions),
         winRate |-> winRateOf(closedPositions, winningPositions, losingPositions),
         totalPnL |-> totalPnL,
         avgWin |-> IF Len(winningPositions) > 0
                    THEN NScale(totalWins, 1, Len(winningPositions)) ELSE Zero,
         avgLoss |-> IF Len(losingPositions) > 0
                     THEN NScale(sumRealizedPnL(losingPositions, 1), 1,
                                 Len(losingPositions))
                     ELSE Zero,
         maxWin |-> IF Len(winningPositions) > 0
                    THEN maxRealizedPnL(winningPositions, 1) ELSE Zero,
         maxLoss |-> IF Len(losingPositions) > 0
                     THEN minRealizedPnL(losingPositions, 1) ELSE Zero,
         profitFactor |-> profitFactorOf(totalWins, totalLosses),
         grossTurnover |-> sumValue(trades, 1),
         totalBrokerage |-> totalBrokerage,
         netPnL |-> NSub(totalPnL, totalBrokerage)]

-----------------------------------------------------------------------------
(* calculateStreakAnalysis.                                                 *)

isDecided(p) == p.status = "closed" /\ p.realizedPnL # Zero

RECURSIVE insertByOpenTime(_, _, _)
\* stable insertion: after every position that does not open later
insertByOpenTime(sorted, position, i) ==
    IF i > Len(sorted) THEN Append(sorted, position)
    ELSE IF sorted[i].openTime > position.openTime
    THEN SubSeq(sorted, 1, i - 1) \o <<position>> \o SubSeq(sorted, i, Len(sorted))
    ELSE insertByOpenTime(sorted, position, i + 1)

RECURSIVE sortByOpenTime(_, _, _)
sortByOpenTime(sorted, list, i) ==
    IF i > Len(list) THEN sorted
    ELSE sortByOpenTime(insertByOpenTime(sorted, list[i], 1), list, i + 1)

streakTypeOf(position) == IF NPos(position.realizedPnL) THEN "win" ELSE "loss"

RECURSIVE streaksNeverCut(_, _, _, _, _)
\* streaksOf that never starts a new streak
streaksNeverCut(closedPositions, i, currentStreakType, currentStreakCount, streaks) ==
    IF i > Len(closedPositions)
    THEN Append(streaks, [type |-> currentStreakType, count |-> currentStreakCount])
    ELSE streaksNeverCut(closedPositions, i + 1, currentStreakType,
                         currentStreakCount + 1, streaks)

RECURSIVE streaksOf(_, _, _, _, _)
\* the loop over closedPositions from element i on, and the final push
streaksOf(closedPositions, i, currentStreakType, currentStreakCount, streaks) ==
    IF i > Len(closedPositions)
    THEN Append(streaks, [type |-> currentStreakType, count |-> currentStreakCount])
    ELSE IF streakTypeOf(closedPositions[i]) = currentStreakType
    THEN streaksOf(closedPositions, i + 1, currentStreakType,
                   currentStreakCount + 1, streaks)
    ELSE streaksOf(closedPositions, i + 1, streakTypeOf(closedPositions[i]), 1,
                   Append(streaks, [type |-> currentStreakType,
                                    count |-> currentStreakCount]))

\* the local streaks of calculateStreakAnalysis for a non-empty list
streaksOfPositions(closedPositions) ==
    streaksOf(closedPositions, 2, streakTypeOf(closedPositions[1]), 1, <<>>)

isWinStreak(streak) == streak.type = "win"

isLossStreak(streak) == streak.type = "loss"

RECURSIVE maxCount(_, _)
\* Math.max(...streaks.map(s => s.count)), 0 for no streak
maxCount(streaks, i) ==
    IF i > Len(streaks) THEN 0
    ELSE LET m == maxCount(streaks, i + 1)
         IN  IF streaks[i].count > m THEN streaks[i].count ELSE m

RECURSIVE sumCount(_, _)
sumCount(streaks, i) ==
    IF i > Len(streaks) THEN 0 ELSE streaks[i].count + sumCount(streaks, i + 1)

RECURSIVE countOfLength(_, _, _)
\* streaks.filter(s => s === length).length
countOfLength(streaks, length, i) ==
    IF i > Len(streaks) THEN 0
    ELSE (IF streaks[i].count = length THEN 1 ELSE 0)
         + countOfLength(streaks, length, i + 1)

RECURSIVE streakDistributionOf(_, _, _, _)
streakDistributionOf(winStreaks, lossStreaks, length, maxStreak) ==
    IF length > maxStreak THEN <<>>
    ELSE LET winCount == countOfLength(winStreaks, length, 1)
             lossCount == countOfLength(lossStreaks, length, 1)
         IN  (IF winCount > 0 \/ lossCount > 0
              THEN <<[streakLength |-> length, winCount |-> winCount,
                      lossCount |-> lossCount]>>
              ELSE <<>>)
             \o streakDistributionOf(winStreaks, lossStreaks, length + 1, maxStreak)

emptyStreakAnalysis ==
    [currentStreak |-> [type |-> "win", count |-> 0],
     longestWinStreak |-> 0, longestLossStreak |-> 0,
     avgWinStreak |-> Zero, avgLossStreak |-> Zero,
     streakDistribution |-> <<>>]

\* calculateStreakAnalysis(trades); ledger is what its call
\* calculatePositions(trades) returns
calculateStreakAnalysis(ledger) ==
    LET closedPositions == sortByOpenTime(<<>>, SelectSeq(ledger, isDecided), 1)
    IN  IF Len(closedPositions) = 0 THEN emptyStreakAnalysis
        ELSE LET streaks == streaksOfPositions(closedPositions)
                 winStreaks == SelectSeq(streaks, isWinStreak)
                 lossStreaks == SelectSeq(streaks, isLossStreak)
                 longestWinStreak == maxCount(winStreaks, 1)
                 longestLossStreak == maxCount(lossStreaks, 1)
             IN  [currentStreak |-> streaks[Len(streaks)],
                  longestWinStreak |-> longestWinStreak,
                  longestLossStreak |-> longestLossStreak,
                  avgWinStreak |-> IF Len(winStreaks) > 0
                                   THEN NFrac(sumCount(winStreaks, 1), Len(winStreaks))
                                   ELSE Zero,
                  avgLossStreak |-> IF Len(lossStreaks) > 0
                                    THEN NFrac(sumCount(lossStreaks, 1),
                                               Len(lossStreaks))
                                    ELSE Zero,
                  streakDistribution |->
                     streakDistributionOf(winStreaks, lossStreaks, 1,
                        IF longestWinStreak > longestLossStreak
                        THEN longestWinStreak ELSE longestLossStreak)]

-----------------------------------------------------------------------------
(* Idle values of the parts a specification does not exercise.              *)

NoCharges == [brokerage |-> Zero, stt |-> Zero, transactionCharges |-> Zero,
              sebiCharges |-> Zero, stampCharges |-> Zero, gst |-> Zero,
              totalCharges |-> Zero]

NoTrade == [instrumentType |-> "FUT", tradeType |-> "buy", value |-> 0,
            exchange |-> "NSE"]

NoStats == [statistics |-> <<>>, streakAnalysis |-> <<>>, performanceRatios |-> <<>>]

PipelineIdle ==
    /\ executions = <<>>
    /\ orders = <<>>
    /\ sortedTrades = <<>>
    /\ idx = 0
    /\ positions = <<>>
    /\ openPositions = <<>>
    /\ daily = <<>>
    /\ run = 1
    /\ prevPositions = <<>>
    /\ prevDaily = <<>>
    /\ stats = NoStats

ChargesIdle ==
    /\ chargeIn = NoTrade
    /\ chargeOut = NoCharges

DrawdownIdle == dd = <<>>

-----------------------------------------------------------------------------
(* SpecCharges: calculateBrokerageCharges applied to one order.             *)

MaxValueSteps == 20

ChargeValues ==
    {k * 50000 : k \in 0..MaxValueSteps} \cup {650, 1000, 1100, 1270, 66600, 66700}

InitCharges ==
    /\ pc = "charge"
    /\ chargeIn \in [instrumentType : {"FUT", "CE", "PE"},
                     tradeType : {"buy", "sell"},
                     value : ChargeValues,
                     exchange : {"NSE", "BSE"}]
    /\ chargeOut = NoCharges
    /\ PipelineIdle
    /\ DrawdownIdle

Charge ==
    /\ pc = "charge"
    /\ chargeOut' = calculateBrokerageCharges(chargeIn, chargeIn.exchange)
    /\ pc' = "charged"
    /\ UNCHANGED <<chargeIn, dd>>
    /\ UNCHANGED pipelineVars

NextCharges == Charge

SpecCharges == InitCharges /\ [][NextCharges]_vars

-----------------------------------------------------------------------------
(* Spec: the pipeline mergeTradesByOrderId -> calculatePositions ->         *)
(* calculateDailyPnL on one execution list.                                 *)

MaxOrders == 3

\* the two instruments traded; the exchange is the one the instrument lists on
Instruments ==
    {[symbol |-> "NIFTY25APRFUT", instrumentType |-> "FUT", strikePrice |-> 0,
      expiryDate |-> "2025-04-24", exchange |-> "NSE"],
     [symbol |-> "SENSEX25APR80000CE", instrumentType |-> "CE", strikePrice |-> 80000,
      expiryDate |-> "2025-04-29", exchange |-> "BSE"]}

\* the fills of one order: <<quantity, price>> per execution
Fills ==
    {<< <<10, 100>> >>, << <<10, 110>> >>, << <<5, 130>> >>,
     << <<5, 100>>, <<7, 110>> >>}

OrderShape ==
    [instrument : Instruments, tradeType : {"buy", "sell"}, fills : Fills,
     newDay : BOOLEAN]

RECURSIVE tradeDateOf(_, _)
\* order k is placed on the day of order k-1, or on the next day
tradeDateOf(shapes, k) ==
    IF k = 1 THEN 1
    ELSE tradeDateOf(shapes, k - 1) + (IF shapes[k].newDay THEN 1 ELSE 0)

RECURSIVE executionsOf(_, _, _, _)
\* transformRawTrade on the rows of the orders, in execution-time order
executionsOf(shapes, k, f, acc) ==
    IF k > Len(shapes) THEN acc
    ELSE IF f > Len(shapes[k].fills) THEN executionsOf(shapes, k + 1, 1, acc)
    ELSE LET quantity == shapes[k].fills[f][1]
             price == shapes[k].fills[f][2]
         IN  executionsOf(shapes, k, f + 1, Append(acc,
                [id |-> Len(acc) + 1,
                 symbol |-> shapes[k].instrument.symbol,
                 instrumentType |-> shapes[k].instrument.instrumentType,
                 strikePrice |-> shapes[k].instrument.strikePrice,
                 expiryDate |-> shapes[k].instrument.expiryDate,
                 exchange |-> shapes[k].instrument.exchange,
                 tradeType |-> shapes[k].tradeType,
                 quantity |-> quantity,
                 price |-> NInt(price),
                 value |-> quantity * price,
                 orderId |-> k,
                 orderExecutionTime |-> k,
                 tradeDate |-> tradeDateOf(shapes, k),
                 trades |-> <<>>]))

\* the execution lists of at most maxOrders orders
ExecutionLists(maxOrders) ==
    {executionsOf(shapes, 1, 1, <<>>) :
        shapes \in {sh \in UNION {[1..n -> OrderShape] : n \in 0..maxOrders} :
                        Len(sh) > 0 => ~sh[1].newDay}}

\* Math.random().toString(36).substring(2, 11)
RandomSuffixes == {"k3f9x2m1a", "z8q0p4w7c"}

Init ==
    /\ pc = "merge"
    /\ executions \in ExecutionLists(MaxOrders)
    /\ orders = <<>>
    /\ sortedTrades = <<>>
    /\ idx = 0
    /\ positions = <<>>
    /\ openPositions = <<>>
    /\ daily = <<>>
    /\ run = 1
    /\ prevPositions = <<>>
    /\ prevDaily = <<>>
    /\ stats = NoStats
    /\ ChargesIdle
    /\ DrawdownIdle

\* mergeTradesByOrderId(executions)
MergeTrades ==
    /\ pc = "merge"
    /\ orders' = mergeTradesByOrderId(executions)
    /\ executions' = inputAfterMerge(executions, mergeTradesByOrderId(executions))
    /\ pc' = "positions"
    /\ UNCHANGED <<sortedTrades, idx, positions, openPositions, daily,
                   run, prevPositions, prevDaily, chargeIn, chargeOut, dd, stats>>

\* calculatePositions(orders): the sorted copy and the empty ledger
StartPositions ==
    /\ pc = "positions"
    /\ sortedTrades' = sortByExecutionTime(<<>>, orders, 1)
    /\ idx' = 0
    /\ positions' = <<>>
    /\ openPositions' = <<>>
    /\ pc' = "match"
    /\ UNCHANGED <<executions, orders, daily, run, prevPositions, prevDaily,
                   chargeIn, chargeOut, dd, stats>>

\* sortedTrades.forEach, one order, buy branch
ProcessBuy ==
    /\ pc = "match"
    /\ idx < Len(sortedTrades)
    /\ LET trade == sortedTrades[idx + 1]
           key == instrumentKey(trade)
           instrumentPositions == instrumentPositionsOf(openPositions, key)
           shortPositions == shortPositionsOf(instrumentPositions, positions, 1)
           closed == closeShorts([ledger |-> positions,
                                  remainingQuantity |-> trade.quantity],
                                 shortPositions, trade, 1)
       IN  /\ trade.tradeType = "buy"
           /\ \E suffix \in RandomSuffixes :
                LET opens == closed.remainingQuantity > 0
                    ledger == IF opens
                              THEN Append(closed.ledger,
                                     newLongPosition(trade, closed.remainingQuantity,
                                                     suffix))
                              ELSE closed.ledger
                    pushed == IF opens
                              THEN Append(instrumentPositions, Len(ledger))
                              ELSE instrumentPositions
                IN  /\ positions' = ledger
                    /\ openPositions' =
                         (key :> stillOpen(pushed, ledger, 1))
                         @@ openPositions
    /\ idx' = idx + 1
    /\ UNCHANGED <<pc, executions, orders, sortedTrades, daily, run, prevPositions,
                   prevDaily, chargeIn, chargeOut, dd, stats>>

\* sortedTrades.forEach, one order, sell branch
ProcessSell ==
    /\ pc = "match"
    /\ idx < Len(sortedTrades)
    /\ LET trade == sortedTrades[idx + 1]
           key == instrumentKey(trade)
           instrumentPositions == instrumentPositionsOf(openPositions, key)
           longPositions == longPositionsOf(instrumentPositions, positions, 1)
           closed == closeLongs([ledger |-> positions,
                                 remainingQuantity |-> trade.quantity],
                                longPositions, trade, 1)
       IN  /\ trade.tradeType = "sell"
           /\ \E suffix \in RandomSuffixes :
                LET opens == closed.remainingQuantity > 0
                    ledger == IF opens
                              THEN Append(closed.ledger,
                                     newShortPosition(trade, closed.remainingQuantity,
                                                      suffix))
                              ELSE closed.ledger
                    pushed == IF opens
                              THEN Append(instrumentPositions, Len(ledger))
                              ELSE instrumentPositions
                IN  /\ positions' = ledger
                    /\ openPositions' =
                         (key :> stillOpen(pushed, ledger, 1))
                         @@ openPositions
    /\ idx' = idx + 1
    /\ UNCHANGED <<pc, executions, orders, sortedTrades, daily, run, prevPositions,
                   prevDaily, chargeIn, chargeOut, dd, stats>>

\* the ledger is returned; calculateDailyPnL(orders)
DailyPnL ==
    /\ pc = "match"
    /\ idx = Len(sortedTrades)
    /\ daily' = calculateDailyPnL(orders, positions)
    /\ pc' = "done"
    /\ UNCHANGED <<executions, orders, sortedTrades, idx, positions, openPositions,
                   run, prevPositions, prevDaily, chargeIn, chargeOut, dd, stats>>

\* calculateTradeStatistics(orders)
TradeStatistics ==
    /\ pc = "done"
    /\ stats' = [stats EXCEPT
                   !.statistics = <<calculateTradeStatistics(orders, positions)>>]
    /\ pc' = "statistics"
    /\ UNCHANGED <<executions, orders, sortedTrades, idx, positions, openPositions,
                   daily, run, prevPositions, prevDaily, chargeIn, chargeOut, dd>>

Next ==
    \/ MergeTrades
    \/ StartPositions
    \/ ProcessBuy
    \/ ProcessSell
    \/ DailyPnL

Spec == Init /\ [][Next]_vars

-----------------------------------------------------------------------------
(* SpecRerun: the pipeline run twice on the same, unchanged execution list. *)

MaxRerunOrders == 2

InitRerun ==
    /\ pc = "merge"
    /\ executions \in ExecutionLists(MaxRerunOrders)
    /\ orders = <<>>
    /\ sortedTrades = <<>>
    /\ idx = 0
    /\ positions = <<>>
    /\ openPositions = <<>>
    /\ daily = <<>>
    /\ run = 1
    /\ prevPositions = <<>>
    /\ prevDaily = <<>>
    /\ stats = NoStats
    /\ ChargesIdle
    /\ DrawdownIdle

\* the results of the first run are kept and the pipeline starts again
Rerun ==
    /\ pc = "done"
    /\ run = 1
    /\ prevPositions' = positions
    /\ prevDaily' = daily
    /\ run' = 2
    /\ pc' = "merge"
    /\ orders' = <<>>
    /\ sortedTrades' = <<>>
    /\ idx' = 0
    /\ positions' = <<>>
    /\ openPositions' = <<>>
    /\ daily' = <<>>
    /\ UNCHANGED <<executions, chargeIn, chargeOut, dd, stats>>

NextRerun ==
    \/ MergeTrades
    \/ StartPositions
    \/ ProcessBuy
    \/ ProcessSell
    \/ DailyPnL
    \/ TradeStatistics
    \/ Rerun

SpecRerun == InitRerun /\ [][NextRerun]_vars

-----------------------------------------------------------------------------
(* SpecPartition: calculatePositions on an order list whose orders of two   *)
(* instrument keys interleave, then again on the sub-list of one key.       *)

MaxPartitionOrders == 3

\* the execution lists of at most maxOrders orders placed on one day
SameDayLists(maxOrders) ==
    {executionsOf(shapes, 1, 1, <<>>) :
        shapes \in UNION {[1..n -> {sh \in OrderShape : ~sh.newDay}] :
                             n \in 0..maxOrders}}

RECURSIVE ordersOfKey(_, _, _)
\* trades.filter(t => instrumentKey(t) === key), from element i on
ordersOfKey(trades, key, i) ==
    IF i > Len(trades) THEN <<>>
    ELSE (IF instrumentKey(trades[i]) = key THEN <<trades[i]>> ELSE <<>>)
         \o ordersOfKey(trades, key, i + 1)

InitPartition ==
    /\ pc = "merge"
    /\ executions \in SameDayLists(MaxPartitionOrders)
    /\ orders = <<>>
    /\ sortedTrades = <<>>
    /\ idx = 0
    /\ positions = <<>>
    /\ openPositions = <<>>
    /\ daily = <<>>
    /\ run = 1
    /\ prevPositions = <<>>
    /\ prevDaily = <<>>
    /\ stats = NoStats
    /\ ChargesIdle
    /\ DrawdownIdle

\* the ledger of the whole list is kept and calculatePositions starts again on
\* the orders of one of the keys traded
RerunKey ==
    /\ pc = "done"
    /\ run = 1
    /\ \E k \in 1..Len(orders) :
          orders' = ordersOfKey(orders, instrumentKey(orders[k]), 1)
    /\ prevPositions' = positions
    /\ prevDaily' = daily
    /\ run' = 2
    /\ pc' = "positions"
    /\ sortedTrades' = <<>>
    /\ idx' = 0
    /\ positions' = <<>>
    /\ openPositions' = <<>>
    /\ daily' = <<>>
    /\ UNCHANGED <<executions, chargeIn, chargeOut, dd, stats>>

NextPartition ==
    \/ MergeTrades
    \/ StartPositions
    \/ ProcessBuy
    \/ ProcessSell
    \/ DailyPnL
    \/ RerunKey

SpecPartition == InitPartition /\ [][NextPartition]_vars

-----------------------------------------------------------------------------
(* SpecMerge: mergeTradesByOrderId on executions whose order identifiers    *)
(* interleave.                                                              *)

MaxExecutions == 3

MergeShape == [orderId : {1, 2}, quantity : {0, 1, 2}, price : {100, 110}]

mergeInput(shapes) ==
    [i \in 1..Len(shapes) |->
        [id |-> i,
         symbol |-> "NIFTY25APRFUT",
         instrumentType |-> "FUT",
         strikePrice |-> 0,
         expiryDate |-> "2025-04-24",
         exchange |-> "NSE",
         tradeType |-> "buy",
         quantity |-> shapes[i].quantity,
         price |-> NInt(shapes[i].price),
         value |-> shapes[i].quantity * shapes[i].price,
         orderId |-> shapes[i].orderId,
         orderExecutionTime |-> i,
         tradeDate |-> 1,
         trades |-> <<>>]]

InitMerge ==
    /\ pc = "merge"
    /\ executions \in {mergeInput(sh) :
                         sh \in UNION {[1..n -> MergeShape] : n \in 0..MaxExecutions}}
    /\ orders = <<>>
    /\ sortedTrades = <<>>
    /\ idx = 0
    /\ positions = <<>>
    /\ openPositions = <<>>
    /\ daily = <<>>
    /\ run = 1
    /\ prevPositions = <<>>
    /\ prevDaily = <<>>
    /\ stats = NoStats
    /\ ChargesIdle
    /\ DrawdownIdle

NextMerge == MergeTrades

SpecMerge == InitMerge /\ [][NextMerge]_vars

-----------------------------------------------------------------------------
(* SpecReload: the pipeline on an execution list, then the saved orders      *)
(* loaded back at start-up, merged again and put through the pipeline.       *)

\* App's load effect up to the call of mergeTradesByOrderId: loadTradesFromDB
\* returns the orders that saveTradesToDB stored, each with its trades array,
\* in key order, which is the order of the list for ids that grow along it
LoadTrades ==
    /\ pc = "done"
    /\ run = 1
    /\ executions' = orders
    /\ prevPositions' = positions
    /\ prevDaily' = daily
    /\ run' = 2
    /\ pc' = "merge"
    /\ orders' = <<>>
    /\ sortedTrades' = <<>>
    /\ idx' = 0
    /\ positions' = <<>>
    /\ openPositions' = <<>>
    /\ daily' = <<>>
    /\ UNCHANGED <<chargeIn, chargeOut, dd, stats>>

NextReload ==
    \/ MergeTrades
    \/ StartPositions
    \/ ProcessBuy
    \/ ProcessSell
    \/ DailyPnL
    \/ LoadTrades

SpecReload == InitRerun /\ [][NextReload]_vars

-----------------------------------------------------------------------------
(* SpecImport: CSV files imported one after another into the App's trade     *)
(* list, which the variable orders holds.                                    *)

MaxFileRows == 2

MaxImports == 2

ImportRow == [trade_id : {1, 2}, order_id : {1, 2}, trade_date : {1, 2}]

\* transformRawTrade(row, index) on the rows of one file; the id is
\* `${raw.trade_id}_${index}`
importRows(rows) ==
    [i \in 1..Len(rows) |->
        [id |-> <<rows[i].trade_id, i - 1>>,
         symbol |-> "NIFTY25APRFUT",
         instrumentType |-> "FUT",
         strikePrice |-> 0,
         expiryDate |-> "2025-04-24",
         exchange |-> "NSE",
         tradeType |-> "buy",
         quantity |-> 5,
         price |-> NInt(100),
         value |-> 500,
         orderId |-> rows[i].order_id,
         orderExecutionTime |-> i,
         tradeDate |-> rows[i].trade_date,
         trades |-> <<>>]]

ImportFiles ==
    {importRows(rows) : rows \in UNION {[1..n -> ImportRow] : n \in 1..MaxFileRows}}

RECURSIVE insertByTradeDate(_, _, _)
\* stable insertion: after every trade that is not dated earlier
insertByTradeDate(sorted, trade, i) ==
    IF i > Len(sorted) THEN Append(sorted, trade)
    ELSE IF sorted[i].tradeDate < trade.tradeDate
    THEN SubSeq(sorted, 1, i - 1) \o <<trade>> \o SubSeq(sorted, i, Len(sorted))
    ELSE insertByTradeDate(sorted, trade, i + 1)

RECURSIVE sortByTradeDateDescending(_, _, _)
\* .sort((a, b) => b.tradeDate.getTime() - a.tradeDate.getTime())
sortByTradeDateDescending(sorted, trades, i) ==
    IF i > Len(trades) THEN sorted
    ELSE sortByTradeDateDescending(insertByTradeDate(sorted, trades[i], 1),
                                   trades, i + 1)

\* handleTradesImported that appends every imported trade
handleTradesImportedUnfiltered(prevTrades, newTrades) ==
    sortByTradeDateDescending(<<>>, prevTrades \o newTrades, 1)

\* the updater handleTradesImported passes to setTrades
handleTradesImported(prevTrades, newTrades) ==
    LET existingTradeIds == {prevTrades[i].id : i \in 1..Len(prevTrades)}
        uniqueNewTrades ==
            SelectSeq(newTrades, LAMBDA t : t.id \notin existingTradeIds)
    IN  sortByTradeDateDescending(<<>>, prevTrades \o uniqueNewTrades, 1)

\* useState<Trade[]>([])
InitImport ==
    /\ pc = "import"
    /\ PipelineIdle
    /\ ChargesIdle
    /\ DrawdownIdle

\* TradeImport.processFile merges the rows of a file by order and handleImport
\* hands the orders to handleTradesImported; executions holds the file's rows
\* and run counts the imports
ImportTrades ==
    /\ pc = "import"
    /\ run <= MaxImports
    /\ \E file \in ImportFiles :
          /\ executions' = file
          /\ orders' = handleTradesImported(orders, mergeTradesByOrderId(file))
    /\ run' = run + 1
    /\ UNCHANGED <<pc, sortedTrades, idx, positions, openPositions, daily,
                   prevPositions, prevDaily, chargeIn, chargeOut, dd, stats>>

NextImport == ImportTrades

SpecImport == InitImport /\ [][NextImport]_vars

-----------------------------------------------------------------------------
(* SpecPermute: the pipeline on an execution list, each execution with its  *)
(* own execution time, then again on a permutation of the list.             *)

MaxPermuteExecutions == 3

PermuteShape == [orderId : {1, 2}, quantity : {5, 10}, price : {100, 110}]

\* transformRawTrade on the rows of two orders of one instrument, row i executed
\* at time i; sides[o] is the side of order o
permuteInput(shapes, sides) ==
    [i \in 1..Len(shapes) |->
        [id |-> i,
         symbol |-> "NIFTY25APRFUT",
         instrumentType |-> "FUT",
         strikePrice |-> 0,
         expiryDate |-> "2025-04-24",
         exchange |-> "NSE",
         tradeType |-> sides[shapes[i].orderId],
         quantity |-> shapes[i].quantity,
         price |-> NInt(shapes[i].price),
         value |-> shapes[i].quantity * shapes[i].price,
         orderId |-> shapes[i].orderId,
         orderExecutionTime |-> i,
         tradeDate |-> 1,
         trades |-> <<>>]]

\* the lists that hold the elements of a list in some order
PermutationsOf(list) ==
    {[i \in 1..Len(list) |-> list[f[i]]] :
        f \in {g \in [1..Len(list) -> 1..Len(list)] :
                  \A a, b \in 1..Len(list) : a # b => g[a] # g[b]}}

InitPermute ==
    /\ pc = "merge"
    /\ executions \in
          {permuteInput(sh, sides) :
              sh \in UNION {[1..n -> PermuteShape] : n \in 0..MaxPermuteExecutions},
              sides \in [{1, 2} -> {"buy", "sell"}]}
    /\ orders = <<>>
    /\ sortedTrades = <<>>
    /\ idx = 0
    /\ positions = <<>>
    /\ openPositions = <<>>
    /\ daily = <<>>
    /\ run = 1
    /\ prevPositions = <<>>
    /\ prevDaily = <<>>
    /\ stats = NoStats
    /\ ChargesIdle
    /\ DrawdownIdle

\* the results of the first run are kept and the pipeline starts again on the
\* same executions supplied in another order
RerunPermuted ==
    /\ pc = "done"
    /\ run = 1
    /\ executions' \in PermutationsOf(executions)
    /\ prevPositions' = positions
    /\ prevDaily' = daily
    /\ run' = 2
    /\ pc' = "merge"
    /\ orders' = <<>>
    /\ sortedTrades' = <<>>
    /\ idx' = 0
    /\ positions' = <<>>
    /\ openPositions' = <<>>
    /\ daily' = <<>>
    /\ UNCHANGED <<chargeIn, chargeOut, dd, stats>>

NextPermute ==
    \/ MergeTrades
    \/ StartPositions
    \/ ProcessBuy
    \/ ProcessSell
    \/ DailyPnL
    \/ RerunPermuted

SpecPermute == InitPermute /\ [][NextPermute]_vars

-----------------------------------------------------------------------------
(* SpecDrawdown: the scan of calculateDrawdownAnalysis over a DayRecord     *)
(* series (what its call calculateDailyPnL(trades) returned).  Dates are    *)
(* day numbers, so a difference of dates is a number of days.               *)

MaxDays == 5

\* the net P&L a day may have
DailyNetPnL == {0 - 40, 0, 20, 40, 100}

DaySeries ==
    UNION {[1..n -> DailyNetPnL] : n \in 0..MaxDays}

RECURSIVE cumulativeDataOf(_, _, _, _)
\* dailyPnL.map(day => { cumulativePnL += day.netPnL; ... })
cumulativeDataOf(dailyPnL, i, cumulativePnL, acc) ==
    IF i > Len(dailyPnL) THEN acc
    ELSE cumulativeDataOf(dailyPnL, i + 1, cumulativePnL + dailyPnL[i].netPnL,
            Append(acc, [date |-> dailyPnL[i].date,
                         cumulativePnL |-> cumulativePnL + dailyPnL[i].netPnL,
                         dailyPnL |-> dailyPnL[i].netPnL]))

Abs(x) == IF x < 0 THEN 0 - x ELSE x

percentageOf(amount, peak) ==
    IF peak # 0 THEN NFrac(amount * 100, Abs(peak)) ELSE Zero

\* recoveredPeriod that ends the period on the day of the recovery
recoveredPeriodEndsAtRecovery(drawdownStart, previous, current, currentPeak) ==
    [startDate |-> drawdownStart.date,
     endDate |-> current.date,
     peakValue |-> currentPeak,
     troughValue |-> previous.cumulativePnL,
     drawdownAmount |-> currentPeak - previous.cumulativePnL,
     drawdownPercentage |->
        percentageOf(currentPeak - previous.cumulativePnL, currentPeak),
     recoveryDate |-> <<current.date>>,
     durationDays |-> previous.date - drawdownStart.date,
     recoveryDays |-> <<current.date - previous.date>>,
     isRecovered |-> TRUE]

\* the period pushed when a new peak ends a drawdown
recoveredPeriod(drawdownStart, previous, current, currentPeak) ==
    [startDate |-> drawdownStart.date,
     endDate |-> previous.date,
     peakValue |-> currentPeak,
     troughValue |-> previous.cumulativePnL,
     drawdownAmount |-> currentPeak - previous.cumulativePnL,
     drawdownPercentage |->
        percentageOf(currentPeak - previous.cumulativePnL, currentPeak),
     recoveryDate |-> <<current.date>>,
     durationDays |-> previous.date - drawdownStart.date,
     recoveryDays |-> <<current.date - previous.date>>,
     isRecovered |-> TRUE]

\* the period pushed for a drawdown still open at the end of the series
ongoingPeriod(drawdownStart, lastData, currentPeak) ==
    [startDate |-> drawdownStart.date,
     endDate |-> lastData.date,
     peakValue |-> currentPeak,
     troughValue |-> lastData.cumulativePnL,
     drawdownAmount |-> currentPeak - lastData.cumulativePnL,
     drawdownPercentage |->
        percentageOf(currentPeak - lastData.cumulativePnL, currentPeak),
     recoveryDate |-> Undefined,
     durationDays |-> lastData.date - drawdownStart.date,
     recoveryDays |-> Undefined,
     isRecovered |-> FALSE]

RECURSIVE maxDrawdownOf(_, _)
\* Math.max(...drawdownPeriods.map(d => d.drawdownAmount), 0)
maxDrawdownOf(periods, i) ==
    IF i > Len(periods) THEN 0
    ELSE LET rest == maxDrawdownOf(periods, i + 1)
         IN  IF periods[i].drawdownAmount > rest THEN periods[i].drawdownAmount
             ELSE rest

RECURSIVE maxDrawdownPercentageOf(_, _)
\* Math.max(...drawdownPeriods.map(d => d.drawdownPercentage), 0)
maxDrawdownPercentageOf(periods, i) ==
    IF i > Len(periods) THEN Zero
    ELSE LET rest == maxDrawdownPercentageOf(periods, i + 1)
         IN  IF NLess(rest, periods[i].drawdownPercentage)
             THEN periods[i].drawdownPercentage
             ELSE rest

RECURSIVE sumDrawdownAmount(_, _)
sumDrawdownAmount(periods, i) ==
    IF i > Len(periods) THEN 0
    ELSE periods[i].drawdownAmount + sumDrawdownAmount(periods, i + 1)

RECURSIVE sumDrawdownPercentage(_, _)
sumDrawdownPercentage(periods, i) ==
    IF i > Len(periods) THEN Zero
    ELSE NAdd(periods[i].drawdownPercentage, sumDrawdownPercentage(periods, i + 1))

RECURSIVE sumDurationDays(_, _)
sumDurationDays(periods, i) ==
    IF i > Len(periods) THEN 0
    ELSE periods[i].durationDays + sumDurationDays(periods, i + 1)

RECURSIVE sumRecoveryDays(_, _)
\* reduce((sum, d) => sum + (d.recoveryDays || 0), 0)
sumRecoveryDays(periods, i) ==
    IF i > Len(periods) THEN 0
    ELSE (IF periods[i].recoveryDays = Undefined THEN 0 ELSE periods[i].recoveryDays[1])
         + sumRecoveryDays(periods, i + 1)

\* d.isRecovered && d.recoveryDays !== undefined
isRecoveredPeriod(d) == d.isRecovered /\ d.recoveryDays # Undefined

emptyDrawdownAnalysis ==
    [maxDrawdown |-> 0, maxDrawdownPercentage |-> Zero, currentDrawdown |-> 0,
     currentDrawdownPercentage |-> Zero, drawdownPeriods |-> <<>>,
     avgDrawdown |-> Zero, avgDrawdownPercentage |-> Zero, avgRecoveryDays |-> Zero,
     totalDrawdownDays |-> 0, drawdownFrequency |-> Zero]

\* Calculate statistics
drawdownStatistics(drawdownPeriods, cumulativeData, currentPeak, inDrawdown) ==
    LET currentData == cumulativeData[Len(cumulativeData)]
        currentDrawdown ==
            IF inDrawdown THEN currentPeak - currentData.cumulativePnL ELSE 0
        recoveredPeriods == SelectSeq(drawdownPeriods, isRecoveredPeriod)
        totalDays == currentData.date - cumulativeData[1].date
    IN  [maxDrawdown |-> maxDrawdownOf(drawdownPeriods, 1),
         maxDrawdownPercentage |->
            maxDrawdownPercentageOf(drawdownPeriods, 1),
         currentDrawdown |-> currentDrawdown,
         currentDrawdownPercentage |->
            IF inDrawdown THEN percentageOf(currentDrawdown, currentPeak) ELSE Zero,
         drawdownPeriods |-> drawdownPeriods,
         avgDrawdown |->
            IF Len(drawdownPeriods) > 0
            THEN NFrac(sumDrawdownAmount(drawdownPeriods, 1),
                       Len(drawdownPeriods))
            ELSE Zero,
         avgDrawdownPercentage |->
            IF Len(drawdownPeriods) > 0
            THEN NScale(sumDrawdownPercentage(drawdownPeriods, 1), 1,
                        Len(drawdownPeriods))
            ELSE Zero,
         avgRecoveryDays |->
            IF Len(recoveredPeriods) > 0
            THEN NFrac(sumRecoveryDays(recoveredPeriods, 1),
                       Len(recoveredPeriods))
            ELSE Zero,
         totalDrawdownDays |-> sumDurationDays(drawdownPeriods, 1),
         drawdownFrequency |->
            IF totalDays > 0 THEN NFrac(Len(drawdownPeriods) * 365, totalDays)
            ELSE Zero]

-----------------------------------------------------------------------------
(* calculatePerformanceRatios.  A quotient by a square root is kept as the  *)
(* pair of its numerator and the radicand of its denominator.               *)

RECURSIVE sumReturns(_, _)
\* dailyReturns.reduce((sum, ret) => sum + ret, 0)
sumReturns(dailyReturns, i) ==
    IF i > Len(dailyReturns) THEN 0
    ELSE dailyReturns[i] + sumReturns(dailyReturns, i + 1)

RECURSIVE sumSquaredDeviations(_, _, _)
\* reduce((sum, ret) => sum + Math.pow(ret - avgDailyReturn, 2), 0)
sumSquaredDeviations(dailyReturns, avgDailyReturn, i) ==
    IF i > Len(dailyReturns) THEN Zero
    ELSE LET deviation == NSub(NInt(dailyReturns[i]), avgDailyReturn)
         IN  NAdd(NMul(deviation, deviation),
                  sumSquaredDeviations(dailyReturns, avgDailyReturn, i + 1))

RECURSIVE belowMeanOf(_, _, _)
\* dailyReturns.filter(ret => ret < avgDailyReturn)
belowMeanOf(dailyReturns, avgDailyReturn, i) ==
    IF i > Len(dailyReturns) THEN <<>>
    ELSE (IF NLess(NInt(dailyReturns[i]), avgDailyReturn)
          THEN <<dailyReturns[i]>> ELSE <<>>)
         \o belowMeanOf(dailyReturns, avgDailyReturn, i + 1)

\* numerator / Math.sqrt(radicand) for radicand > 0
overRoot(numerator, radicand) == [numerator |-> numerator, radicand |-> radicand]

\* ratioOverVolatility without the guard on the denominator
ratioUnguarded(annualReturn, annualVariance) ==
    IF NPos(annualVariance) THEN overRoot(annualReturn, annualVariance)
    ELSE IF annualReturn = Zero THEN [notANumber |-> TRUE]
    ELSE Infinity

\* volatility > 0 ? annualReturn / volatility : 0, where the volatility is
\* Math.sqrt(variance) * Math.sqrt(252), positive exactly when the variance is
ratioOverVolatility(annualReturn, annualVariance) ==
    IF NPos(annualVariance) THEN overRoot(annualReturn, annualVariance) ELSE Zero

emptyPerformanceRatios ==
    [sharpeRatio |-> Zero, calmarRatio |-> Zero, sortinoRatio |-> Zero,
     maxDrawdownRatio |-> Zero, profitToMaxDrawdownRatio |-> Zero]

\* calculatePerformanceRatios(trades); dailyPnL and drawdownAnalysis are what its
\* calls calculateDailyPnL(trades) and calculateDrawdownAnalysis(trades) return
calculatePerformanceRatios(dailyPnL, drawdownAnalysis) ==
    IF Len(dailyPnL) = 0 THEN emptyPerformanceRatios
    ELSE LET dailyReturns == [k \in 1..Len(dailyPnL) |-> dailyPnL[k].netPnL]
             totalReturn == sumReturns(dailyReturns, 1)
             avgDailyReturn == NFrac(totalReturn, Len(dailyReturns))
             variance == NScale(sumSquaredDeviations(dailyReturns, avgDailyReturn, 1),
                                1, Len(dailyReturns))
             annualReturn == NScale(avgDailyReturn, 252, 1)
             belowMeanReturns == belowMeanOf(dailyReturns, avgDailyReturn, 1)
             downsideVariance ==
                 IF Len(belowMeanReturns) > 0
                 THEN NScale(sumSquaredDeviations(belowMeanReturns, avgDailyReturn, 1),
                             1, Len(belowMeanReturns))
                 ELSE Zero
         IN  [sharpeRatio |-> ratioOverVolatility(annualReturn,
                                                  NScale(variance, 252, 1)),
              calmarRatio |->
                 IF drawdownAnalysis.maxDrawdown > 0
                 THEN NScale(annualReturn, 1, drawdownAnalysis.maxDrawdown)
                 ELSE Zero,
              sortinoRatio |-> ratioOverVolatility(annualReturn,
                                                   NScale(downsideVariance, 252, 1)),
              maxDrawdownRatio |->
                 IF Abs(totalReturn) > 0
                 THEN NFrac(drawdownAnalysis.maxDrawdown, Abs(totalReturn))
                 ELSE Zero,
              profitToMaxDrawdownRatio |->
                 IF drawdownAnalysis.maxDrawdown > 0
                 THEN NFrac(totalReturn, drawdownAnalysis.maxDrawdown)
                 ELSE Zero]

InitDrawdown ==
    /\ pc = "drawdown"
    /\ \E series \in DaySeries :
          dd = [dailyPnL |-> [k \in 1..Len(series) |->
                                 [date |-> k, netPnL |-> series[k]]],
                cumulativeData |-> <<>>,
                i |-> 0,
                currentPeak |-> 0,
                inDrawdown |-> FALSE,
                drawdownStart |-> Undefined,
                drawdownPeriods |-> <<>>,
                result |-> Undefined]
    /\ PipelineIdle
    /\ ChargesIdle

\* dailyPnL.length === 0: the zero analysis is returned
DrawdownEmpty ==
    /\ pc = "drawdown"
    /\ Len(dd.dailyPnL) = 0
    /\ dd' = [dd EXCEPT !.result = <<emptyDrawdownAnalysis>>]
    /\ pc' = "analysed"
    /\ UNCHANGED <<chargeIn, chargeOut>>
    /\ UNCHANGED pipelineVars

\* the cumulative series and the locals of the scan
DrawdownStart ==
    /\ pc = "drawdown"
    /\ Len(dd.dailyPnL) > 0
    /\ LET cumulativeData == cumulativeDataOf(dd.dailyPnL, 1, 0, <<>>)
       IN  dd' = [dd EXCEPT !.cumulativeData = cumulativeData,
                            !.currentPeak = cumulativeData[1].cumulativePnL,
                            !.inDrawdown = FALSE,
                            !.drawdownStart = Undefined,
                            !.i = 2]
    /\ pc' = "scan"
    /\ UNCHANGED <<chargeIn, chargeOut>>
    /\ UNCHANGED pipelineVars

\* one iteration of the loop over cumulativeData
ScanDay ==
    /\ pc = "scan"
    /\ dd.i <= Len(dd.cumulativeData)
    /\ LET current == dd.cumulativeData[dd.i]
           previous == dd.cumulativeData[dd.i - 1]
       IN  dd' =
             IF current.cumulativePnL > dd.currentPeak
             THEN [dd EXCEPT
                     !.drawdownPeriods =
                        IF dd.inDrawdown /\ dd.drawdownStart # Undefined
                        THEN Append(@, recoveredPeriod(dd.drawdownStart[1], previous,
                                                       current, dd.currentPeak))
                        ELSE @,
                     !.currentPeak = current.cumulativePnL,
                     !.inDrawdown = FALSE,
                     !.drawdownStart = Undefined,
                     !.i = @ + 1]
             ELSE IF current.cumulativePnL < dd.currentPeak
             THEN [dd EXCEPT
                     !.inDrawdown = TRUE,
                     !.drawdownStart = IF dd.inDrawdown THEN @ ELSE <<current>>,
                     !.i = @ + 1]
             ELSE [dd EXCEPT !.i = @ + 1]
    /\ UNCHANGED <<pc, chargeIn, chargeOut>>
    /\ UNCHANGED pipelineVars

\* Handle ongoing drawdown, calculate statistics, return
DrawdownFinish ==
    /\ pc = "scan"
    /\ dd.i > Len(dd.cumulativeData)
    /\ LET lastData == dd.cumulativeData[Len(dd.cumulativeData)]
           drawdownPeriods ==
               IF dd.inDrawdown /\ dd.drawdownStart # Undefined
               THEN Append(dd.drawdownPeriods,
                           ongoingPeriod(dd.drawdownStart[1], lastData, dd.currentPeak))
               ELSE dd.drawdownPeriods
       IN  dd' = [dd EXCEPT
                    !.drawdownPeriods = drawdownPeriods,
                    !.result = <<drawdownStatistics(drawdownPeriods, dd.cumulativeData,
                                                    dd.currentPeak, dd.inDrawdown)>>]
    /\ pc' = "analysed"
    /\ UNCHANGED <<chargeIn, chargeOut>>
    /\ UNCHANGED pipelineVars

NextDrawdown ==
    \/ DrawdownEmpty
    \/ DrawdownStart
    \/ ScanDay
    \/ DrawdownFinish

SpecDrawdown == InitDrawdown /\ [][NextDrawdown]_vars

-----------------------------------------------------------------------------
(* SpecAnalytics: calculateTradeStatistics and calculateStreakAnalysis on   *)
(* the orders of an execution list, and calculatePerformanceRatios on a     *)
(* DayRecord series and its drawdown analysis.                              *)

MaxAnalyticsOrders == 4

\* single-fill orders of one instrument: wins, losses and break-even closes of
\* one, two or three positions by one order
AnalyticsFills ==
    {<< <<10, 100>> >>, << <<10, 110>> >>, << <<20, 105>> >>, << <<30, 105>> >>}

AnalyticsShape ==
    [instrument : {i \in Instruments : i.instrumentType = "FUT"},
     tradeType : {"buy", "sell"}, fills : AnalyticsFills, newDay : {FALSE}]

AnalyticsLists(maxOrders) ==
    {executionsOf(shapes, 1, 1, <<>>) :
        shapes \in UNION {[1..n -> AnalyticsShape] : n \in 0..maxOrders}}

InitAnalytics ==
    \/ /\ pc = "merge"
       /\ executions \in AnalyticsLists(MaxAnalyticsOrders)
       /\ orders = <<>>
       /\ sortedTrades = <<>>
       /\ idx = 0
       /\ positions = <<>>
       /\ openPositions = <<>>
       /\ daily = <<>>
       /\ run = 1
       /\ prevPositions = <<>>
       /\ prevDaily = <<>>
       /\ stats = NoStats
       /\ ChargesIdle
       /\ DrawdownIdle
    \/ InitDrawdown

\* calculateStreakAnalysis(orders)
StreakAnalysis ==
    /\ pc = "statistics"
    /\ stats' = [stats EXCEPT
                   !.streakAnalysis = <<calculateStreakAnalysis(positions)>>]
    /\ pc' = "streaks"
    /\ UNCHANGED <<executions, orders, sortedTrades, idx, positions, openPositions,
                   daily, run, prevPositions, prevDaily, chargeIn, chargeOut, dd>>

\* calculatePerformanceRatios, after its calls calculateDailyPnL and
\* calculateDrawdownAnalysis returned
PerformanceRatios ==
    /\ pc = "analysed"
    /\ stats' = [stats EXCEPT
                   !.performanceRatios =
                      <<calculatePerformanceRatios(dd.dailyPnL, dd.result[1])>>]
    /\ pc' = "ratios"
    /\ UNCHANGED <<executions, orders, sortedTrades, idx, positions, openPositions,
                   daily, run, prevPositions, prevDaily, chargeIn, chargeOut, dd>>

NextAnalytics ==
    \/ MergeTrades
    \/ StartPositions
    \/ ProcessBuy
    \/ ProcessSell
    \/ DailyPnL
    \/ TradeStatistics
    \/ StreakAnalysis
    \/ DrawdownEmpty
    \/ DrawdownStart
    \/ ScanDay
    \/ DrawdownFinish
    \/ PerformanceRatios

SpecAnalytics == InitAnalytics /\ [][NextAnalytics]_vars

-----------------------------------------------------------------------------
(* Properties.                                                              *)

\* C10 (SpecCharges). Brokerage ceiling: a futures order is charged
\* min(value * 0.03%, 20), an options order a flat 20, no order more than 20,
\* and a futures order of value 1,000,000 exactly 20.
BrokerageCeiling ==
    pc = "charged" =>
        /\ ~NLess(NInt(20), chargeOut.brokerage)
        /\ chargeIn.instrumentType \in {"CE", "PE"} => chargeOut.brokerage = NInt(20)
        /\ chargeIn.instrumentType = "FUT" =>
              chargeOut.brokerage =
                 IF 3 * chargeIn.value <= 20 * 10000
                 THEN NFrac(3 * chargeIn.value, 10000)
                 ELSE NInt(20)
        /\ (chargeIn.instrumentType = "FUT" /\ chargeIn.value = 1000000) =>
              chargeOut.brokerage = [w |-> 20, n |-> 0, d |-> 1]

\* a futures order of value 1,000,000 has been charged the cap
BrokerageCeilingWitness ==
    /\ pc = "charged"
    /\ chargeIn.instrumentType = "FUT"
    /\ chargeIn.value = 1000000
    /\ chargeOut.brokerage = NInt(20)

RECURSIVE ExecutedQuantity(_, _)
\* quantity of the executions from the i-th on that carry the order identifier
ExecutedQuantity(orderId, i) ==
    IF i > Len(executions) THEN 0
    ELSE (IF executions[i].orderId = orderId THEN executions[i].quantity ELSE 0)
         + ExecutedQuantity(orderId, i + 1)

RECURSIVE ExecutedNotional(_, _)
\* quantity * price of the executions from the i-th on that carry the identifier
ExecutedNotional(orderId, i) ==
    IF i > Len(executions) THEN 0
    ELSE (IF executions[i].orderId = orderId
          THEN executions[i].quantity * executions[i].price.w ELSE 0)
         + ExecutedNotional(orderId, i + 1)

\* C9 (SpecMerge). Order aggregation: one order per distinct order identifier,
\* every execution in exactly one member list, quantity and value the sums over
\* the members, price = value / quantity whenever quantity > 0.
OrderAggregation ==
    pc = "positions" =>
        /\ \A i, j \in 1..Len(orders) : orders[i].orderId = orders[j].orderId => i = j
        /\ {orders[i].orderId : i \in 1..Len(orders)}
              = {executions[e].orderId : e \in 1..Len(executions)}
        /\ \A e \in 1..Len(executions) :
              Cardinality({m \in {<<i, j>> : i \in 1..Len(orders), j \in 1..Len(executions)} :
                              /\ m[2] <= Len(orders[m[1]].trades)
                              /\ orders[m[1]].trades[m[2]] = executions[e].id}) = 1
        /\ \A i \in 1..Len(orders) :
              /\ \A j \in 1..Len(orders[i].trades) :
                    executions[orders[i].trades[j]].orderId = orders[i].orderId
              /\ orders[i].quantity = ExecutedQuantity(orders[i].orderId, 1)
              /\ orders[i].value = ExecutedNotional(orders[i].orderId, 1)
              /\ orders[i].quantity > 0 =>
                    NScale(orders[i].price, orders[i].quantity, 1) = NInt(orders[i].value)

\* two orders have been merged, one of them from executions at different prices
\* that another order's execution separates
OrderAggregationWitness ==
    /\ pc = "positions"
    /\ Len(executions) = 3
    /\ Len(orders) = 2
    /\ orders[1].trades = <<1, 3>>
    /\ orders[1].quantity = 3
    /\ orders[1].price = NFrac(310, 3)

\* C5 (SpecDrawdown). Drawdown round-trip: the series [0, 100, 60, 80, 120] gives
\* exactly one period, peak 100, trough 60, amount 40, recovered on the day of
\* 120, and maxDrawdown 40.
DrawdownRoundTrip ==
    (/\ pc = "analysed"
     /\ Len(dd.cumulativeData) = 5
     /\ \A k \in 1..5 : dd.cumulativeData[k].cumulativePnL = <<0, 100, 60, 80, 120>>[k])
    => /\ Len(dd.result[1].drawdownPeriods) = 1
       /\ dd.result[1].drawdownPeriods[1].peakValue = 100
       /\ dd.result[1].drawdownPeriods[1].troughValue = 60
       /\ dd.result[1].drawdownPeriods[1].drawdownAmount = 40
       /\ dd.result[1].drawdownPeriods[1].isRecovered
       /\ dd.result[1].drawdownPeriods[1].recoveryDate = <<5>>
       /\ dd.result[1].maxDrawdown = 40

\* the instrument key of a position, from the fields it copies from its order
positionKey(p) == <<p.symbol, p.instrumentType, p.strikePrice, p.expiryDate>>

\* the side of the order that opened a position
openingSide(p) == orderById(sortedTrades, p.trades[1]).tradeType

matching == pc \in {"match", "done"}

InstrumentKeys == {instrumentKey(i) : i \in Instruments}

RECURSIVE SignedQuantity(_, _)
\* signed quantity of the first i sorted orders of a key
SignedQuantity(key, i) ==
    IF i = 0 THEN 0
    ELSE (IF instrumentKey(sortedTrades[i]) # key THEN 0
          ELSE IF sortedTrades[i].tradeType = "buy" THEN sortedTrades[i].quantity
          ELSE 0 - sortedTrades[i].quantity)
         + SignedQuantity(key, i - 1)

RECURSIVE NetQuantity(_, _)
\* net quantity of the first i positions of the ledger that belong to a key
NetQuantity(key, i) ==
    IF i = 0 THEN 0
    ELSE (IF positionKey(positions[i]) = key THEN positions[i].netQuantity ELSE 0)
         + NetQuantity(key, i - 1)

\* C1 (Spec). Quantity conservation: after each order, for every instrument key
\* the signed quantities of the key's orders processed so far sum to the net
\* quantities of the key's positions.
QuantityConservation ==
    matching =>
        \A key \in InstrumentKeys :
            SignedQuantity(key, idx) = NetQuantity(key, Len(positions))

\* three orders in, a key holds a closed and an open position and is not flat
QuantityConservationWitness ==
    /\ pc = "match"
    /\ idx = 3
    /\ \E key \in InstrumentKeys :
          /\ SignedQuantity(key, idx) \notin {0, 10, 0 - 10}
          /\ \E i, j \in 1..Len(positions) :
                /\ positionKey(positions[i]) = key
                /\ positionKey(positions[j]) = key
                /\ positions[i].status = "closed"
                /\ positions[j].status = "open"
                /\ positions[j].remainingQuantity < positions[j].maxQuantity

\* C2 (Spec). FIFO matching: a position has been reduced only if every position
\* of the same key and side created before it is fully closed; longs of 10 then 5
\* followed by a sell of 12 leave the first closed and the second open with 3.
FifoMatching ==
    matching =>
        /\ \A i, j \in 1..Len(positions) :
              (/\ i < j
               /\ positionKey(positions[i]) = positionKey(positions[j])
               /\ openingSide(positions[i]) = openingSide(positions[j])
               /\ positions[j].remainingQuantity < positions[j].maxQuantity)
              => positions[i].remainingQuantity = 0
        /\ (/\ idx = 3
            /\ \A k \in 1..3 :
                  /\ instrumentKey(sortedTrades[k]) = instrumentKey(sortedTrades[1])
                  /\ sortedTrades[k].tradeType = <<"buy", "buy", "sell">>[k]
                  /\ sortedTrades[k].quantity = <<10, 5, 12>>[k])
           => /\ Len(positions) = 2
              /\ positions[1].status = "closed"
              /\ positions[1].remainingQuantity = 0
              /\ positions[2].status = "open"
              /\ positions[2].remainingQuantity = 3

\* longs of 10 then 5 have met a sell of 12
FifoMatchingWitness ==
    /\ pc = "match"
    /\ idx = 3
    /\ \A k \in 1..3 :
          /\ instrumentKey(sortedTrades[k]) = instrumentKey(sortedTrades[1])
          /\ sortedTrades[k].tradeType = <<"buy", "buy", "sell">>[k]
          /\ sortedTrades[k].quantity = <<10, 5, 12>>[k]
    /\ positions[1].remainingQuantity = 0
    /\ positions[2].remainingQuantity = 3

\* C3 (Spec). Terminal status: a position whose remainingQuantity is 0 stays in
\* the ledger and no later order changes any of its fields.
TerminalStatus ==
    [][\A i \in 1..Len(positions) :
          positions[i].remainingQuantity = 0
          => /\ i <= Len(positions')
             /\ positions'[i] = positions[i]]_vars

\* a position was closed by the second order and a third order of the same key
\* and of the closing order's side has been processed
TerminalStatusWitness ==
    /\ pc = "match"
    /\ idx = 3
    /\ positions[1].status = "closed"
    /\ positions[1].closeTime = <<2>>
    /\ instrumentKey(sortedTrades[3]) = positionKey(positions[1])
    /\ sortedTrades[3].tradeType = sortedTrades[2].tradeType

RECURSIVE OppositeOpenRemaining(_, _)
\* total remaining quantity of the open positions, among the first i of the
\* ledger, of the order's key and of the side opposite to the order
OppositeOpenRemaining(trade, i) ==
    IF i = 0 THEN 0
    ELSE (IF /\ positionKey(positions[i]) = instrumentKey(trade)
             /\ positions[i].status = "open"
             /\ (IF trade.tradeType = "buy" THEN positions[i].netQuantity < 0
                                            ELSE positions[i].netQuantity > 0)
          THEN positions[i].remainingQuantity ELSE 0)
         + OppositeOpenRemaining(trade, i - 1)

\* C8 (Spec). Position creation rule: an order opens at most one position, and
\* one exactly when its quantity exceeds the remaining quantity of the
\* opposite-side open positions of its key; the new position holds the excess,
\* signed by the order's side, at the order's price, open.
PositionCreationRule ==
    [][(pc = "match" /\ idx' = idx + 1) =>
          LET trade == sortedTrades[idx + 1]
              opposite == OppositeOpenRemaining(trade, Len(positions))
              excess == trade.quantity - opposite
          IN  /\ Len(positions') =
                    Len(positions) + (IF trade.quantity > opposite THEN 1 ELSE 0)
              /\ trade.quantity > opposite =>
                    LET new == positions'[Len(positions')]
                    IN  /\ positionKey(new) = instrumentKey(trade)
                        /\ new.remainingQuantity = excess
                        /\ new.maxQuantity = excess
                        /\ new.netQuantity =
                              (IF trade.tradeType = "buy" THEN excess ELSE 0 - excess)
                        /\ new.entryPrice = trade.price
                        /\ new.status = "open"
                        /\ new.realizedPnL = Zero]_vars

\* an order closed an opposite position and opened one with its excess, and a
\* later order was absorbed exactly without opening any
PositionCreationRuleWitness ==
    /\ pc = "match"
    /\ idx = 3
    /\ Len(positions) = 2
    /\ positions[1].status = "closed"
    /\ positions[2].status = "closed"
    /\ positions[2].trades = <<2, 3>>
    /\ positions[2].maxQuantity < sortedTrades[2].quantity
    /\ sortedTrades[3].quantity = positions[2].maxQuantity

\* the trade dates the contributing orders of a position span
spannedDates(p) ==
    {orderById(orders, p.trades[j]).tradeDate : j \in 1..Len(p.trades)}

lastSpannedDate(p) == CHOOSE d \in spannedDates(p) : \A e \in spannedDates(p) : e <= d

\* a closed position with nonzero realized P&L
isSettled(p) == p.status = "closed" /\ p.realizedPnL # Zero

RECURSIVE ApportionedPnL(_, _)
\* realizedPnL / n summed over the settled positions, among the first i of the
\* ledger, that span the date
ApportionedPnL(date, i) ==
    IF i = 0 THEN Zero
    ELSE NAdd(IF isSettled(positions[i]) /\ date \in spannedDates(positions[i])
              THEN NFrac(positions[i].realizedPnL.w * positions[i].realizedPnL.d
                            + positions[i].realizedPnL.n,
                         positions[i].realizedPnL.d
                            * Cardinality(spannedDates(positions[i])))
              ELSE Zero,
              ApportionedPnL(date, i - 1))

\* the settled positions whose latest spanned date is the date, winners or losers
attributedTo(date, winners) ==
    {i \in 1..Len(positions) :
        /\ isSettled(positions[i])
        /\ lastSpannedDate(positions[i]) = date
        /\ (positions[i].realizedPnL.w >= 0) = winners}

\* C6 (Spec). Apportionment: a closed position with nonzero realized P&L adds
\* realizedPnL / n to each of the n DayRecords of the dates its orders span (the
\* whole of it when n = 1) and counts as a win or a loss on the latest only.
Apportionment ==
    pc = "done" =>
        \A k \in 1..Len(daily) :
            /\ daily[k].realizedPnL = ApportionedPnL(daily[k].date, Len(positions))
            /\ daily[k].winningOrders = Cardinality(attributedTo(daily[k].date, TRUE))
            /\ daily[k].losingOrders = Cardinality(attributedTo(daily[k].date, FALSE))

\* one position with realized P&L 300 over 3 dates: 100 on each DayRecord, the
\* win on the third
ApportionmentWitness ==
    /\ pc = "done"
    /\ Len(positions) = 1
    /\ positions[1].status = "closed"
    /\ positions[1].realizedPnL = NInt(300)
    /\ Len(daily) = 3
    /\ \A k \in 1..3 : daily[k].realizedPnL = NInt(100)
    /\ <<daily[1].winningOrders, daily[2].winningOrders, daily[3].winningOrders>>
          = <<0, 0, 1>>
    /\ \A k \in 1..3 : daily[k].losingOrders = 0

\* executions [buy 10 @ 100 (order 1), sell 10 @ 110 (order 2)] on one
\* instrument key and one trade date
ScenarioInput ==
    /\ Len(executions) = 2
    /\ executions[1].orderId # executions[2].orderId
    /\ executions[1].symbol = executions[2].symbol
    /\ executions[1].tradeDate = executions[2].tradeDate
    /\ executions[1].tradeType = "buy"
    /\ executions[1].quantity = 10
    /\ executions[1].price = NInt(100)
    /\ executions[2].tradeType = "sell"
    /\ executions[2].quantity = 10
    /\ executions[2].price = NInt(110)

\* the scenario's ledger and DayRecord with the stated realized P&L
ScenarioResult(realized) ==
    /\ Len(positions) = 1
    /\ positions[1].status = "closed"
    /\ positions[1].netQuantity = 0
    /\ positions[1].realizedPnL = NInt(realized)
    /\ Len(daily) = 1
    /\ daily[1].realizedPnL = NInt(realized)
    /\ daily[1].netPnL =
          NSub(NSub(NInt(realized),
                    calculateBrokerageCharges(orders[1], orders[1].exchange).totalCharges),
               calculateBrokerageCharges(orders[2], orders[2].exchange).totalCharges)

\* C7 as stated (Spec). End-to-end scenario with realized P&L 1000.
EndToEndScenario == (pc = "done" /\ ScenarioInput) => ScenarioResult(1000)

\* C7 amended (Spec). End-to-end scenario: one closed position, net quantity 0,
\* realized P&L 10 * (110 - 100) = 100, and one DayRecord whose net P&L is 100
\* minus the charges of the two orders (98.9712526 on the future, 50.862172 on
\* the option).
EndToEndScenarioAmended ==
    (pc = "done" /\ ScenarioInput) =>
        /\ ScenarioResult(100)
        /\ executions[1].instrumentType = "FUT" =>
              daily[1].netPnL = NFrac(989712526, 10000000)
        /\ executions[1].instrumentType = "CE" =>
              daily[1].netPnL = NFrac(50862172, 1000000)

\* the scenario has run to its DayRecord
EndToEndScenarioWitness ==
    /\ pc = "done"
    /\ ScenarioInput
    /\ Len(daily) = 1
    /\ positions[1].realizedPnL = NInt(100)

\* C4 (SpecRerun). Idempotence: the second run of the pipeline on the same
\* execution list returns the ledger and the DayRecord series of the first,
\* position identifiers included.
Idempotence ==
    (pc = "done" /\ run = 2) => (positions = prevPositions /\ daily = prevDaily)

\* the same with the position identifiers left out of the comparison
withoutPositionId(ledger) ==
    [i \in 1..Len(ledger) |-> [ledger[i] EXCEPT !.positionId = <<>>]]

IdempotenceButForIds ==
    (pc = "done" /\ run = 2) =>
        /\ withoutPositionId(positions) = withoutPositionId(prevPositions)
        /\ daily = prevDaily

RECURSIVE positionsOfKey(_, _, _)
\* the positions of a ledger that belong to a key, in ledger order
positionsOfKey(ledger, key, i) ==
    IF i > Len(ledger) THEN <<>>
    ELSE (IF positionKey(ledger[i]) = key THEN <<ledger[i]>> ELSE <<>>)
         \o positionsOfKey(ledger, key, i + 1)

\* C11 (SpecPartition). Partitionability: calculatePositions on the sub-list of
\* one key's orders returns the positions the run on the whole list returned
\* for that key, in the same order and equal in every field but the identifier.
Partitionability ==
    (pc = "done" /\ run = 2 /\ orders # <<>>) =>
        withoutPositionId(positions) =
            withoutPositionId(positionsOfKey(prevPositions,
                                             instrumentKey(orders[1]), 1))

\* the orders of two keys interleaved (key, other key, key), the key's second
\* order closing part of the position its first order opened
PartitionabilityWitness ==
    /\ pc = "done"
    /\ run = 2
    /\ Len(orders) = 2
    /\ Len(executions) >= 3
    /\ instrumentKey(executions[1]) = instrumentKey(orders[1])
    /\ executions[1].orderId = 1
    /\ \E e \in 1..Len(executions) :
          /\ executions[e].orderId = 2
          /\ instrumentKey(executions[e]) # instrumentKey(orders[1])
    /\ orders[2].orderId = 3
    /\ Len(prevPositions) = 3
    /\ Len(positions) = 2
    /\ positions[1].status = "closed"
    /\ positions[2].status = "open"

\* C16 (SpecDrawdown). Every drawdown period covers only days whose cumulative
\* net P&L is strictly below the period's peakValue, so its troughValue is below
\* its peakValue and its drawdownAmount is positive.
DrawdownBelowPeak ==
    (pc = "analysed" /\ Len(dd.dailyPnL) > 0) =>
        \A k \in 1..Len(dd.result[1].drawdownPeriods) :
            LET period == dd.result[1].drawdownPeriods[k]
            IN  /\ \A day \in period.startDate..period.endDate :
                      dd.cumulativeData[day].cumulativePnL < period.peakValue
                /\ period.troughValue < period.peakValue
                /\ period.drawdownAmount > 0

RECURSIVE maxCumulativeBefore(_, _)
\* the maximum cumulative value over the days before a day (day > 1)
maxCumulativeBefore(cumulativeData, day) ==
    IF day = 2 THEN cumulativeData[1].cumulativePnL
    ELSE LET m == maxCumulativeBefore(cumulativeData, day - 1)
             c == cumulativeData[day - 1].cumulativePnL
         IN  IF c > m THEN c ELSE m

\* a day's cumulative value exceeds the running peak while a period is open
recovering ==
    /\ pc = "scan"
    /\ dd.i <= Len(dd.cumulativeData)
    /\ dd.inDrawdown
    /\ dd.cumulativeData[dd.i].cumulativePnL > dd.currentPeak

UnrecoveredDrawdown ==
    (pc = "analysed" /\ Len(dd.dailyPnL) > 0) =>
        LET periods == dd.result[1].drawdownPeriods
            lastData == dd.cumulativeData[Len(dd.cumulativeData)]
            unrecovered == {k \in 1..Len(periods) : ~periods[k].isRecovered}
            below == lastData.cumulativePnL < dd.currentPeak
        IN  /\ (unrecovered # {}) <=> below
            /\ Cardinality(unrecovered) <= 1
            /\ \A k \in unrecovered :
                  /\ k = Len(periods)
                  /\ periods[k].endDate = lastData.date
            /\ dd.result[1].currentDrawdown =
                  IF below THEN dd.currentPeak - lastData.cumulativePnL ELSE 0

\* C15 (Spec). Position state invariant: every position of the ledger has
\* 0 <= remainingQuantity <= maxQuantity and |netQuantity| = remainingQuantity
\* and is closed exactly when remainingQuantity = 0; from one order to the next
\* a position's remainingQuantity never increases and a closed position stays
\* closed.
PositionStateInvariant ==
    [][/\ \A i \in 1..Len(positions') :
             /\ 0 <= positions'[i].remainingQuantity
             /\ positions'[i].remainingQuantity <= positions'[i].maxQuantity
             /\ Abs(positions'[i].netQuantity) = positions'[i].remainingQuantity
             /\ (positions'[i].status = "closed") <=>
                    (positions'[i].remainingQuantity = 0)
             /\ positions'[i].status \in {"open", "closed"}
       /\ Len(positions') >= Len(positions)
       /\ \A i \in 1..Len(positions) :
             /\ positions'[i].remainingQuantity <= positions[i].remainingQuantity
             /\ positions'[i].maxQuantity = positions[i].maxQuantity
             /\ positions[i].status = "closed" => positions'[i].status = "closed"]_vars

\* a short position of 10 that two buy orders of 5 closed
PositionStateInvariantWitness ==
    /\ pc = "match"
    /\ \E i \in 1..Len(positions) :
          /\ openingSide(positions[i]) = "sell"
          /\ positions[i].status = "closed"
          /\ positions[i].maxQuantity = 10
          /\ Len(positions[i].trades) = 3

\* C12 (SpecAnalytics). Empty input: on an empty execution list
\* mergeTradesByOrderId, calculatePositions and calculateDailyPnL return empty
\* lists, calculateTradeStatistics zero counts, zero P&L, win rate 0 and profit
\* factor 0, and calculateStreakAnalysis zero-length streaks; on the DayRecord
\* series of the empty list calculateDrawdownAnalysis returns zero drawdowns and
\* no periods and calculatePerformanceRatios all ratios 0.
EmptyInput ==
    /\ (pc = "streaks" /\ executions = <<>>) =>
          /\ orders = <<>>
          /\ positions = <<>>
          /\ daily = <<>>
          /\ stats.statistics =
                <<[totalTrades |-> 0, winningTrades |-> 0, losingTrades |-> 0,
                   winRate |-> Zero, totalPnL |-> Zero, avgWin |-> Zero,
                   avgLoss |-> Zero, maxWin |-> Zero, maxLoss |-> Zero,
                   profitFactor |-> Zero, grossTurnover |-> 0,
                   totalBrokerage |-> Zero, netPnL |-> Zero]>>
          /\ stats.streakAnalysis[1].currentStreak.count = 0
          /\ stats.streakAnalysis[1].longestWinStreak = 0
          /\ stats.streakAnalysis[1].longestLossStreak = 0
          /\ stats.streakAnalysis[1].avgWinStreak = Zero
          /\ stats.streakAnalysis[1].avgLossStreak = Zero
          /\ stats.streakAnalysis[1].streakDistribution = <<>>
    /\ (pc = "ratios"
           /\ dd.dailyPnL = calculateDailyPnL(mergeTradesByOrderId(<<>>), <<>>)) =>
          /\ dd.result[1].drawdownPeriods = <<>>
          /\ dd.result[1].maxDrawdown = 0
          /\ dd.result[1].maxDrawdownPercentage = Zero
          /\ dd.result[1].currentDrawdown = 0
          /\ dd.result[1].avgDrawdown = Zero
          /\ dd.result[1].totalDrawdownDays = 0
          /\ stats.performanceRatios =
                <<[sharpeRatio |-> Zero, calmarRatio |-> Zero, sortinoRatio |-> Zero,
                   maxDrawdownRatio |-> Zero, profitToMaxDrawdownRatio |-> Zero]>>

\* the statistics and the streak analysis of the empty execution list
EmptyInputWitness ==
    /\ pc = "streaks"
    /\ executions = <<>>
    /\ stats.statistics # <<>>
    /\ stats.streakAnalysis # <<>>

\* C13 (SpecAnalytics). Zero-denominator guard: Sharpe, Sortino and Calmar are 0,
\* and never NaN or Infinity, whenever the standard deviation of the daily net
\* P&L, the downside deviation or the maximum drawdown is 0; profit factor is
\* Infinity when there are winning closed positions and no losing ones, and 0
\* when there are neither.
ZeroDenominatorGuard ==
    /\ pc = "ratios" =>
          LET n == Len(dd.dailyPnL)
              total == sumReturns([k \in 1..n |-> dd.dailyPnL[k].netPnL], 1)
              flat == \A j, k \in 1..n : dd.dailyPnL[j].netPnL = dd.dailyPnL[k].netPnL
              noDownside == \A k \in 1..n : dd.dailyPnL[k].netPnL * n >= total
              ratios == stats.performanceRatios[1]
          IN  /\ flat => ratios.sharpeRatio = Zero
              /\ noDownside => ratios.sortinoRatio = Zero
              /\ dd.result[1].maxDrawdown = 0 => ratios.calmarRatio = Zero
              /\ \A ratio \in {ratios.sharpeRatio, ratios.sortinoRatio,
                                ratios.calmarRatio} :
                    /\ ratio # Infinity
                    /\ ratio # [notANumber |-> TRUE]
    /\ pc \in {"statistics", "streaks"} =>
          LET winners == \E i \in 1..Len(positions) :
                            isClosed(positions[i]) /\ NPos(positions[i].realizedPnL)
              losers == \E i \in 1..Len(positions) :
                            isClosed(positions[i])
                            /\ NLess(positions[i].realizedPnL, Zero)
          IN  /\ (winners /\ ~losers) => stats.statistics[1].profitFactor = Infinity
              /\ (~winners /\ ~losers) => stats.statistics[1].profitFactor = Zero

\* three days of the same nonzero net P&L: no deviation, no downside and no
\* drawdown, an annual return that is not 0
ZeroDenominatorGuardWitness ==
    /\ pc = "ratios"
    /\ Len(dd.dailyPnL) = 3
    /\ \A k \in 1..3 : dd.dailyPnL[k].netPnL = 20
    /\ dd.result[1].maxDrawdown = 0
    /\ stats.performanceRatios[1].sharpeRatio = Zero
    /\ stats.performanceRatios[1].profitToMaxDrawdownRatio = Zero

\* the outcomes of the closed positions with nonzero realized P&L, in ledger
\* order (positions open in the order of the ledger)
outcomesOf(ledger) ==
    LET decided == SelectSeq(ledger, isDecided)
    IN  [k \in 1..Len(decided) |->
            IF NPos(decided[k].realizedPnL) THEN "win" ELSE "loss"]

\* the lengths of the runs of one type in a sequence of outcomes, and 0
runLengths(outcomes, type) ==
    {0} \cup {l \in 1..Len(outcomes) :
                \E i \in 1..(Len(outcomes) - l + 1) :
                    \A k \in i..(i + l - 1) : outcomes[k] = type}

longestRun(outcomes, type) ==
    CHOOSE l \in runLengths(outcomes, type) :
        \A other \in runLengths(outcomes, type) : other <= l

RECURSIVE expandStreaks(_, _)
\* the outcomes a list of streaks stands for, from streak i on
expandStreaks(streaks, i) ==
    IF i > Len(streaks) THEN <<>>
    ELSE [k \in 1..streaks[i].count |-> streaks[i].type]
         \o expandStreaks(streaks, i + 1)

RECURSIVE distributedLength(_, _)
\* the sum of the lengths of the streaks a distribution counts
distributedLength(distribution, i) ==
    IF i > Len(distribution) THEN 0
    ELSE distribution[i].streakLength
            * (distribution[i].winCount + distribution[i].lossCount)
         + distributedLength(distribution, i + 1)

\* C19 (SpecAnalytics). Streaks: calculateStreakAnalysis run-length-encodes the
\* outcomes (win for realizedPnL > 0, loss for < 0) of the closed positions with
\* nonzero realized P&L in the order they opened: consecutive streaks alternate
\* in type, their lengths sum to the number of such positions, longestWinStreak
\* and longestLossStreak are the longest runs of each type and currentStreak is
\* the last run.
StreakEncoding ==
    (pc = "streaks" /\ SelectSeq(positions, isDecided) # <<>>) =>
        LET decided == SelectSeq(positions, isDecided)
            outcomes == outcomesOf(positions)
            streaks == streaksOfPositions(sortByOpenTime(<<>>, decided, 1))
            analysis == stats.streakAnalysis[1]
        IN  /\ \A k \in 1..(Len(decided) - 1) :
                  decided[k].openTime < decided[k + 1].openTime
            /\ expandStreaks(streaks, 1) = outcomes
            /\ \A k \in 1..Len(streaks) : streaks[k].count >= 1
            /\ \A k \in 1..(Len(streaks) - 1) : streaks[k].type # streaks[k + 1].type
            /\ sumCount(streaks, 1) = Len(decided)
            /\ distributedLength(analysis.streakDistribution, 1) = Len(decided)
            /\ analysis.longestWinStreak = longestRun(outcomes, "win")
            /\ analysis.longestLossStreak = longestRun(outcomes, "loss")
            /\ analysis.currentStreak = streaks[Len(streaks)]
            /\ analysis.currentStreak.type = outcomes[Len(outcomes)]
            /\ \A k \in 1..Len(outcomes) :
                  k > Len(outcomes) - analysis.currentStreak.count
                     => outcomes[k] = analysis.currentStreak.type
            /\ analysis.currentStreak.count < Len(outcomes)
                  => outcomes[Len(outcomes) - analysis.currentStreak.count]
                        # analysis.currentStreak.type

\* two winning positions, then a losing one: a win streak of 2 and a current
\* loss streak of 1
StreakEncodingWitness ==
    /\ pc = "streaks"
    /\ outcomesOf(positions) = <<"win", "win", "loss">>
    /\ stats.streakAnalysis[1].longestWinStreak = 2
    /\ stats.streakAnalysis[1].longestLossStreak = 1
    /\ stats.streakAnalysis[1].currentStreak = [type |-> "loss", count |-> 1]

\* C20 (SpecAnalytics). Aggregate win rate: the winRate of
\* calculateTradeStatistics is winning positions / (winning + losing positions)
\* * 100, the ratio calculateDailyPnL uses per day for orderWinRate, and 0 when
\* there is no winning or losing position.
AggregateWinRate ==
    pc = "statistics" =>
        LET statistics == stats.statistics[1]
            decided == statistics.winningTrades + statistics.losingTrades
        IN  /\ statistics.winRate =
                  IF decided > 0 THEN NFrac(statistics.winningTrades * 100, decided)
                  ELSE Zero
            /\ \A k \in 1..Len(daily) :
                  daily[k].orderWinRate =
                     IF daily[k].winningOrders + daily[k].losingOrders > 0
                     THEN NFrac(daily[k].winningOrders * 100,
                                daily[k].winningOrders + daily[k].losingOrders)
                     ELSE Zero

RECURSIVE executionCount(_, _)
\* the number of executions in the contributing orders of a position, from its
\* j-th order on
executionCount(p, j) ==
    IF j > Len(p.trades) THEN 0
    ELSE Len(orderById(orders, p.trades[j]).trades) + executionCount(p, j + 1)

RECURSIVE attributedExecutions(_, _, _)
\* the executions of the positions attributed to a date, among the first i of
\* the ledger
attributedExecutions(date, winners, i) ==
    IF i = 0 THEN 0
    ELSE (IF i \in attributedTo(date, winners)
          THEN executionCount(positions[i], 1) ELSE 0)
         + attributedExecutions(date, winners, i - 1)

\* C21 (SpecRerun). Execution-level attribution: a closed position counted as a
\* win or a loss on a DayRecord adds the number of executions of its
\* contributing orders to winningTrades or losingTrades, and 1 to winningOrders
\* or losingOrders.
ExecutionLevelAttribution ==
    pc = "done" =>
        \A k \in 1..Len(daily) :
            /\ daily[k].winningTrades =
                  attributedExecutions(daily[k].date, TRUE, Len(positions))
            /\ daily[k].losingTrades =
                  attributedExecutions(daily[k].date, FALSE, Len(positions))
            /\ daily[k].winningOrders = Cardinality(attributedTo(daily[k].date, TRUE))
            /\ daily[k].losingOrders = Cardinality(attributedTo(daily[k].date, FALSE))

\* C22 (SpecRerun). DayRecord series shape: calculateDailyPnL returns exactly one
\* DayRecord per distinct trade date of the input orders, in strictly ascending
\* date order, each with netPnL = realizedPnL - brokerage.
DayRecordSeriesShape ==
    pc = "done" =>
        /\ {daily[k].date : k \in 1..Len(daily)}
              = {orders[i].tradeDate : i \in 1..Len(orders)}
        /\ Len(daily) = Cardinality({orders[i].tradeDate : i \in 1..Len(orders)})
        /\ \A k \in 1..(Len(daily) - 1) : daily[k].date < daily[k + 1].date
        /\ \A k \in 1..Len(daily) :
              daily[k].netPnL = NSub(daily[k].realizedPnL, daily[k].brokerage)

\* two orders on two days that close a position at a profit: two DayRecords,
\* each with its share of the P&L and its own charges
DayRecordSeriesShapeWitness ==
    /\ pc = "done"
    /\ Len(orders) = 2
    /\ orders[1].tradeDate # orders[2].tradeDate
    /\ Len(daily) = 2
    /\ NPos(daily[1].realizedPnL)
    /\ NPos(daily[1].brokerage)
    /\ NPos(daily[2].brokerage)
    /\ daily[1].netPnL # daily[1].realizedPnL

\* C23 (SpecCharges). Side-dependent charges: securities transaction tax is
\* nonzero only on sell orders (0.02% of the value of a futures order, 0.1% of
\* an options order) and stamp duty is nonzero only on buy orders, so no order
\* is charged both.
SideDependentCharges ==
    pc = "charged" =>
        /\ chargeOut.stt # Zero => chargeIn.tradeType = "sell"
        /\ chargeOut.stampCharges # Zero => chargeIn.tradeType = "buy"
        /\ ~(chargeOut.stt # Zero /\ chargeOut.stampCharges # Zero)
        /\ chargeIn.tradeType = "sell" =>
              chargeOut.stt = IF chargeIn.instrumentType = "FUT"
                              THEN NFrac(2 * chargeIn.value, 10000)
                              ELSE NFrac(chargeIn.value, 1000)
        /\ (chargeIn.tradeType = "buy" /\ chargeIn.value > 0) =>
              NPos(chargeOut.stampCharges)

\* a futures sell order of value 100,000: tax 20 and no stamp duty
SideDependentChargesWitness ==
    /\ pc = "charged"
    /\ chargeIn.instrumentType = "FUT"
    /\ chargeIn.tradeType = "sell"
    /\ chargeIn.value = 100000
    /\ chargeOut.stt = NInt(20)
    /\ chargeOut.stampCharges = Zero

\* what C24 compares of a ledger: quantities, entry price, realized P&L, status
positionOutcomes(ledger) ==
    {[maxQuantity |-> ledger[i].maxQuantity,
      netQuantity |-> ledger[i].netQuantity,
      remainingQuantity |-> ledger[i].remainingQuantity,
      entryPrice |-> ledger[i].entryPrice,
      realizedPnL |-> ledger[i].realizedPnL,
      status |-> ledger[i].status] : i \in 1..Len(ledger)}

\* C24 (SpecPermute). Input-order independence: mergeTradesByOrderId followed by
\* calculatePositions yields the same positions (quantities, entry prices,
\* realized P&L and status) for every permutation of an execution list.
InputOrderIndependence ==
    (pc = "done" /\ run = 2) =>
        /\ Len(positions) = Len(prevPositions)
        /\ positionOutcomes(positions) = positionOutcomes(prevPositions)

\* C25 (SpecRerun). Single-sided inventory: after every order the open positions
\* of an instrument key all have the same sign; no key holds an open long and
\* an open short position at once.
SingleSidedInventory ==
    matching =>
        \A i, j \in 1..Len(positions) :
            (/\ positionKey(positions[i]) = positionKey(positions[j])
             /\ positions[i].status = "open"
             /\ positions[j].status = "open")
            => (positions[i].netQuantity > 0) = (positions[j].netQuantity > 0)

\* a sell order of 12 closed the long position of 10 of its key and opened a
\* short position of 2
SingleSidedInventoryWitness ==
    /\ pc = "match"
    /\ idx = 2
    /\ Len(positions) = 2
    /\ positionKey(positions[1]) = positionKey(positions[2])
    /\ positions[1].status = "closed"
    /\ positions[1].maxQuantity = 10
    /\ positions[2].status = "open"
    /\ positions[2].netQuantity = 0 - 2

RECURSIVE SignedNotional(_, _)
\* sell notional minus buy notional of the first i sorted orders of a key
SignedNotional(key, i) ==
    IF i = 0 THEN Zero
    ELSE LET trade == sortedTrades[i]
             notional == NScale(trade.price, trade.quantity, 1)
         IN  NAdd(IF instrumentKey(trade) # key THEN Zero
                  ELSE IF trade.tradeType = "sell" THEN notional
                  ELSE NNeg(notional),
                  SignedNotional(key, i - 1))

RECURSIVE RealizedOfKey(_, _)
\* realizedPnL summed over the first i positions of the ledger that belong to a key
RealizedOfKey(key, i) ==
    IF i = 0 THEN Zero
    ELSE NAdd(IF positionKey(positions[i]) = key THEN positions[i].realizedPnL
              ELSE Zero,
              RealizedOfKey(key, i - 1))

RECURSIVE OpenCost(_, _)
\* netQuantity * entryPrice summed over the open positions, among the first i of
\* the ledger, that belong to a key
OpenCost(key, i) ==
    IF i = 0 THEN Zero
    ELSE NAdd(IF positionKey(positions[i]) = key /\ positions[i].status = "open"
              THEN NScale(positions[i].entryPrice, positions[i].netQuantity, 1)
              ELSE Zero,
              OpenCost(key, i - 1))

RECURSIVE sumDailyRealizedPnL(_)
\* realizedPnL summed over the first k DayRecords
sumDailyRealizedPnL(k) ==
    IF k = 0 THEN Zero ELSE NAdd(daily[k].realizedPnL, sumDailyRealizedPnL(k - 1))

RECURSIVE sumDailyBrokerage(_)
\* brokerage summed over the first k DayRecords
sumDailyBrokerage(k) ==
    IF k = 0 THEN Zero ELSE NAdd(daily[k].brokerage, sumDailyBrokerage(k - 1))

RECURSIVE sumDailyNetPnL(_)
\* netPnL summed over the first k DayRecords
sumDailyNetPnL(k) ==
    IF k = 0 THEN Zero ELSE NAdd(daily[k].netPnL, sumDailyNetPnL(k - 1))

RECURSIVE sumDecidedOrders(_)
\* winningOrders + losingOrders summed over the first k DayRecords
sumDecidedOrders(k) ==
    IF k = 0 THEN 0
    ELSE daily[k].winningOrders + daily[k].losingOrders + sumDecidedOrders(k - 1)

\* C28 (Spec). Each closed position with nonzero realized P&L is counted as a win
\* or a loss on exactly one DayRecord: winningOrders + losingOrders summed over
\* the DayRecords is the number of such positions, wins and losses apart; open
\* and break-even closed positions are counted on none.
CountedOnOneDay ==
    pc = "done" =>
        LET settled == {i \in 1..Len(positions) : isSettled(positions[i])}
            wins == {i \in settled : NPos(positions[i].realizedPnL)}
        IN  /\ sumDecidedOrders(Len(daily)) = Cardinality(settled)
            /\ \A k \in 1..Len(daily) :
                  /\ daily[k].winningOrders
                        = Cardinality({i \in wins :
                             lastSpannedDate(positions[i]) = daily[k].date})
                  /\ daily[k].losingOrders
                        = Cardinality({i \in settled \ wins :
                             lastSpannedDate(positions[i]) = daily[k].date})

\* three orders on three days: the first position spans two days and closes
\* with a loss or a gain, the second is still open, and the DayRecords count one
\* position in all
CountedOnOneDayWitness ==
    /\ pc = "done"
    /\ Len(daily) = 3
    /\ Len(positions) = 2
    /\ isSettled(positions[1])
    /\ positions[2].status = "open"
    /\ daily[1].winningOrders + daily[1].losingOrders = 0
    /\ daily[2].winningOrders + daily[2].losingOrders = 1
    /\ daily[3].winningOrders + daily[3].losingOrders = 0

\* what the claim compares of an order: its quantity, value, price and number of
\* constituent executions
orderSummary(trade) ==
    [orderId |-> trade.orderId, quantity |-> trade.quantity, value |-> trade.value,
     price |-> trade.price, executions |-> Len(trade.trades)]

\* C29 (SpecReload). Re-merge round trip: merging the saved orders again at
\* start-up yields the same set of orders, each with the same quantity, value,
\* price and number of constituent executions, and the DayRecords count the same
\* executions before and after the reload.
ReMergeRoundTrip ==
    (run = 2 /\ pc # "merge") =>
        /\ {orderSummary(orders[k]) : k \in 1..Len(orders)}
              = {orderSummary(executions[k]) : k \in 1..Len(executions)}
        /\ pc = "done" =>
              /\ Len(daily) = Len(prevDaily)
              /\ \A k \in 1..Len(daily) :
                    daily[k].totalTrades = prevDaily[k].totalTrades

tradeIdsOf(list) == {list[i].id : i \in 1..Len(list)}

tradesOf(list) == {list[i] : i \in 1..Len(list)}

\* C30 (SpecImport). Import de-duplication: an import keeps every trade of the
\* list unchanged and appends exactly the imported trades whose id the list did
\* not hold; importing the same batch again changes nothing; no two trades of
\* the list share an id; and the list is ordered by trade date descending.
ImportDeDuplication ==
    [][pc = "import" =>
        LET batch == mergeTradesByOrderId(executions')
            fresh == {k \in 1..Len(batch) : batch[k].id \notin tradeIdsOf(orders)}
        IN  /\ tradesOf(orders') = tradesOf(orders) \cup {batch[k] : k \in fresh}
            /\ Len(orders') = Len(orders) + Cardinality(fresh)
            /\ handleTradesImported(orders', batch) = orders'
            /\ \A i, j \in 1..Len(orders') :
                  orders'[i].id = orders'[j].id => i = j
            /\ \A i, j \in 1..Len(orders') :
                  i < j => orders'[i].tradeDate >= orders'[j].tradeDate]_vars

\* the last file held two orders: one under an id the list already held with
\* another date, which was dropped, and a new one, which was added
ImportDeDuplicationWitness ==
    /\ pc = "import"
    /\ Len(orders) = 2
    /\ LET batch == mergeTradesByOrderId(executions)
       IN  /\ Len(batch) = 2
           /\ batch[1].id \in tradeIdsOf(orders)
           /\ batch[1] \notin tradesOf(orders)
           /\ batch[2] \in tradesOf(orders)
           /\ orders[1].tradeDate > orders[2].tradeDate

====
